---------------------------- MODULE Spec2Model ----------------------------
(***************************************************************************)
(* Solar monitoring system: the sensor-data evaluation pipeline.           *)
(*                                                                         *)
(*   AlertChecker   (src/src/utils/helpers.js, lines 170-526)              *)
(*   DataProcessor  (src/unnamed/part_003)                                 *)
(*   THRESHOLDS     (src/src/config/constants.js)                          *)
(*   SensorController.receiveSensorData (src/unnamed/part_004) and the     *)
(*   SensorData schema (src/src/models/Report.js)                          *)
(*                                                                         *)
(* Sensor values are fixed-point integers in hundredths of their unit      *)
(* (volt, ampere, degree Celsius): 9.60 V is 960.  Threshold comparisons   *)
(* are the source's comparisons multiplied through by 100, in exact        *)
(* arithmetic.  An alert's message and threshold text are display strings  *)
(* computed from the same values and are not part of an alert here.        *)
(***************************************************************************)
EXTENDS Integers, Sequences, FiniteSets, TLC

(* null / undefined: a value outside every sensor range *)
NULL == 0 - 999999
(* NaN, the result of parseFloat on a non-numeric string *)
NAN == 0 - 999998
(* a null object reference (no sensorData, no previousData) *)
NONE == [absent |-> TRUE]
(* a null or undefined array reference: a function that is no sequence *)
NOARRAY == [i \in {0} |-> NULL]
(* a property an object does not have *)
UNDEFINED == 0 - 999997
(* process.env with no threshold variable set *)
NOENV == [VOLTAGE_THRESHOLD_LOW |-> NULL, VOLTAGE_THRESHOLD_CRITICAL |-> NULL,
          CURRENT_THRESHOLD_LOW |-> NULL, TEMPERATURE_THRESHOLD_HIGH |-> NULL]

VARIABLES
    (* AlertChecker *)
    THRESHOLDS,      \* constants.js THRESHOLDS, fixed at module load
    pc,              \* position of the checkSensorData call
    sensorData,      \* argument of checkSensorData
    previousData,    \* argument of checkSensorData
    hour,            \* new Date().getHours() read by checkCurrent
    voltageAlerts,   \* local of checkSensorData
    currentAlerts,   \* local of checkSensorData
    tempAlerts,      \* local of checkSensorData
    anomalyAlerts,   \* local of checkSensorData
    alerts,          \* local of checkSensorData: the candidate list
    uniqueAlerts,    \* local of processAlerts
    emailAlerts,     \* local of processAlerts
    emailIdx,        \* position of processAlerts' for-of loop
    sent,            \* alerts handed to EmailService.sendAlertEmail, in order
    emailErrors,     \* deliveries that threw and were logged by the inner catch
    returned,        \* value checkSensorData returned to its caller
    (* DataProcessor: single-reading operations *)
    dataPoint,       \* argument of determineStatus / detectAnomalies
    lastReading,     \* detectAnomalies' previousData argument
    status,          \* result of determineStatus
    anomalies,       \* result of detectAnomalies
    applied,         \* the single-reading operations applied so far
    (* DataProcessor: energy integration *)
    dataPoints,      \* the caller's array, which the call sorts in place
    givenPoints,     \* the array as the caller passed it
    energy,          \* result of calculateEnergyConsumption
    energyPc,        \* position of the calculateEnergyConsumption call
    addedReading,    \* a further reading the caller adds to the array
    energyWithAdded, \* result of calculateEnergyConsumption with it added
    (* DataProcessor: time series *)
    seriesPoints,    \* generateTimeSeriesData's dataPoints argument
    interval,        \* generateTimeSeriesData's interval argument
    timeSeries,      \* result of generateTimeSeriesData
    seriesPc,        \* position of the generateTimeSeriesData call
    (* DataProcessor: summary report *)
    stats,           \* generateRecommendations' argument
    recommendations, \* result of generateRecommendations
    reportPoints,    \* generateSummaryReport's dataPoints argument
    report,          \* result of generateSummaryReport
    reportPc,        \* position of the report operations
    (* AlertChecker.analyzeTrend *)
    trendData,       \* analyzeTrend's argument
    trend,           \* result of analyzeTrend
    trendPc,         \* position of the analyzeTrend call
    (* SensorController.receiveSensorData *)
    apiKeyValid,     \* whether the request's API key is a valid one
    rawData,         \* req.body
    stored,          \* the SensorData document written by save()
    storePc,         \* position of the receiveSensorData request
    response,        \* the response sent for the request
    (* constants.js *)
    processEnv,      \* process.env when constants.js is loaded
    (* DataProcessor.processSensorData *)
    procRaw,         \* processSensorData's rawData argument
    procResult,      \* what processSensorData returned
    procPc,          \* position of the processSensorData call
    (* AuthController.login *)
    user,            \* the account's stored User document
    now,             \* Date.now(), in minutes
    loginReqs,       \* the login requests: position, password, document read
    sessions,        \* number of sessions created
    loginLog,        \* the password of every login answered so far, in order
    (* SensorController.receiveSensorData, several requests of one device *)
    readingsDb,      \* the device's stored SensorData documents, in save order
    ingestClock,     \* the clock read by new Date()
    ingestReqs,      \* the requests: position, timestamp, previous reading
    (* SensorController.bulkDeleteSensorData *)
    deleteBody,      \* req.body
    deleteQuery,     \* the query handed to SensorData.deleteMany
    deleteResponse,  \* the status of the response
    deletePc,        \* position of the bulkDeleteSensorData request
    (* AlertController.acknowledgeAlert / resolveAlert *)
    alertDoc,        \* the stored Alert document
    ackReqs,         \* the requests: position, kind, user, notes, response
    ackClock         \* the clock behind new Date() in the alert handlers

alertVars == <<THRESHOLDS, pc, sensorData, previousData, hour, voltageAlerts,
               currentAlerts, tempAlerts, anomalyAlerts, alerts, uniqueAlerts,
               emailAlerts, emailIdx, sent, emailErrors, returned>>

readingVars == <<dataPoint, lastReading, status, anomalies, applied>>

energyVars == <<dataPoints, givenPoints, energy, energyPc, addedReading,
                energyWithAdded>>

seriesVars == <<seriesPoints, interval, timeSeries, seriesPc>>

reportVars == <<stats, recommendations, reportPoints, report, reportPc>>

trendVars == <<trendData, trend, trendPc>>

storeVars == <<apiKeyValid, rawData, stored, storePc, response>>

processVars == <<procRaw, procResult, procPc>>

loginVars == <<user, now, loginReqs, sessions, loginLog>>

ingestVars == <<readingsDb, ingestClock, ingestReqs>>

deleteVars == <<deleteBody, deleteQuery, deleteResponse, deletePc>>

ackVars == <<alertDoc, ackReqs, ackClock>>

moreVars == <<processEnv, processVars, loginVars, ingestVars, deleteVars, ackVars>>

laterVars == <<seriesVars, reportVars, trendVars, storeVars, moreVars>>

vars == <<alertVars, readingVars, energyVars, laterVars>>

----------------------------------------------------------------------------
(* constants.js *)

ALERT_SEVERITY == [LOW |-> "low", MEDIUM |-> "medium", HIGH |-> "high",
                   CRITICAL |-> "critical"]

ALERT_TYPES == [VOLTAGE_DROP |-> "voltage_drop",
                CURRENT_ANOMALY |-> "current_anomaly",
                TEMPERATURE_HIGH |-> "temperature_high",
                SYSTEM_OFFLINE |-> "system_offline",
                BATTERY_LOW |-> "battery_low",
                PANEL_FAULT |-> "panel_fault"]

DEFAULT_VOLTAGE_LOW == 20
DEFAULT_VOLTAGE_CRITICAL == 10
DEFAULT_CURRENT_LOW == 15
DEFAULT_TEMPERATURE_HIGH == 60

(* parseFloat(process.env.X) || dflt: a missing variable and a non-numeric  *)
(* one parse to NaN, and NaN and 0 are both falsy                          *)
envThreshold(raw, dflt) ==
    IF raw = NULL \/ raw = NAN \/ raw = 0 THEN dflt ELSE raw

loadThresholds(env) ==
    [VOLTAGE_LOW      |-> envThreshold(env.VOLTAGE_THRESHOLD_LOW, DEFAULT_VOLTAGE_LOW),
     VOLTAGE_CRITICAL |-> envThreshold(env.VOLTAGE_THRESHOLD_CRITICAL, DEFAULT_VOLTAGE_CRITICAL),
     CURRENT_LOW      |-> envThreshold(env.CURRENT_THRESHOLD_LOW, DEFAULT_CURRENT_LOW),
     TEMPERATURE_HIGH |-> envThreshold(env.TEMPERATURE_THRESHOLD_HIGH, DEFAULT_TEMPERATURE_HIGH)]

----------------------------------------------------------------------------
(* AlertChecker: the rules *)

normalVoltage == 12
normalCurrent == 5
(* normalVoltage * 0.8, in hundredths of a volt *)
softFloorCentiVolt == 960
criticalTemperature == 70
voltageDropLimit == 3
temperatureRiseLimit == 10

Alert(type, severity, value, previousValue, actionRequired) ==
    [type |-> type, severity |-> severity, value |-> value,
     previousValue |-> previousValue, actionRequired |-> actionRequired]

(* a JavaScript truthiness test of a number that may be null/undefined *)
truthy(x) == x # NULL /\ x # NAN /\ x # 0

(* faulty variant: the low threshold is tested before the critical one *)
checkVoltageLowFirst(voltage, T) ==
    IF voltage < normalVoltage * T.VOLTAGE_LOW
    THEN << Alert(ALERT_TYPES.VOLTAGE_DROP, ALERT_SEVERITY.HIGH, voltage, NULL, TRUE) >>
    ELSE IF voltage < normalVoltage * T.VOLTAGE_CRITICAL
    THEN << Alert(ALERT_TYPES.VOLTAGE_DROP, ALERT_SEVERITY.CRITICAL, voltage, NULL, TRUE) >>
    ELSE IF voltage < softFloorCentiVolt
    THEN << Alert(ALERT_TYPES.VOLTAGE_DROP, ALERT_SEVERITY.MEDIUM, voltage, NULL, FALSE) >>
    ELSE << >>

checkVoltage(voltage, T) ==
    IF voltage < normalVoltage * T.VOLTAGE_CRITICAL
    THEN << Alert(ALERT_TYPES.VOLTAGE_DROP, ALERT_SEVERITY.CRITICAL, voltage, NULL, TRUE) >>
    ELSE IF voltage < normalVoltage * T.VOLTAGE_LOW
    THEN << Alert(ALERT_TYPES.VOLTAGE_DROP, ALERT_SEVERITY.HIGH, voltage, NULL, TRUE) >>
    ELSE IF voltage < softFloorCentiVolt
    THEN << Alert(ALERT_TYPES.VOLTAGE_DROP, ALERT_SEVERITY.MEDIUM, voltage, NULL, FALSE) >>
    ELSE << >>

checkCurrent(current, h, T) ==
    (IF current < normalCurrent * T.CURRENT_LOW
     THEN << Alert(ALERT_TYPES.CURRENT_ANOMALY, ALERT_SEVERITY.HIGH, current, NULL, TRUE) >>
     ELSE << >>)
    \o
    (IF current = 0 /\ h >= 8 /\ h <= 16
     THEN << Alert(ALERT_TYPES.CURRENT_ANOMALY, ALERT_SEVERITY.MEDIUM, current, NULL, TRUE) >>
     ELSE << >>)

checkTemperature(temperature, T) ==
    IF temperature > 100 * T.TEMPERATURE_HIGH
    THEN << Alert(ALERT_TYPES.TEMPERATURE_HIGH,
                  IF temperature > 100 * criticalTemperature
                  THEN ALERT_SEVERITY.CRITICAL ELSE ALERT_SEVERITY.HIGH,
                  temperature, NULL, TRUE) >>
    ELSE << >>

checkAnomalies(currentData, prevData) ==
    (IF truthy(currentData.voltage) /\ truthy(prevData.voltage)
        /\ prevData.voltage - currentData.voltage > 100 * voltageDropLimit
     THEN << Alert(ALERT_TYPES.VOLTAGE_DROP, ALERT_SEVERITY.CRITICAL,
                   currentData.voltage, prevData.voltage, TRUE) >>
     ELSE << >>)
    \o
    (IF truthy(currentData.temperature) /\ truthy(prevData.temperature)
        /\ currentData.temperature - prevData.temperature > 100 * temperatureRiseLimit
     THEN << Alert(ALERT_TYPES.TEMPERATURE_HIGH, ALERT_SEVERITY.HIGH,
                   currentData.temperature, prevData.temperature, TRUE) >>
     ELSE << >>)

(* Math.round(value * 10): round half up, value in hundredths *)
roundTimes10(value) == (value + 5) \div 10

(* faulty variant: the key holds the value itself, not rounded *)
alertKeyExact(alert) == << alert.type, alert.value >>

(* the deduplication key `${alert.type}_${Math.round(alert.value * 10)}` *)
alertKey(alert) == << alert.type, roundTimes10(alert.value) >>

RECURSIVE dedupFrom(_, _, _)
dedupFrom(batch, seenKeys, kept) ==
    IF batch = << >> THEN kept
    ELSE LET alert == Head(batch)
             key == alertKey(alert)
         IN IF key \in seenKeys
            THEN dedupFrom(Tail(batch), seenKeys, kept)
            ELSE dedupFrom(Tail(batch), seenKeys \cup {key}, Append(kept, alert))

filterRecentDuplicates(batch) == dedupFrom(batch, {}, << >>)

(* faulty variant: every severity but low is mailed *)
isEmailSeverityNotLow(alert) == alert.severity # ALERT_SEVERITY.LOW

isEmailSeverity(alert) ==
    alert.severity = ALERT_SEVERITY.CRITICAL \/ alert.severity = ALERT_SEVERITY.HIGH

selectEmailAlerts(unique) == SelectSeq(unique, isEmailSeverity)


(* faulty variant: the first category that produced an alert ends the evaluation *)
candidateListEarlyExit(va, ca, ta, aa) ==
    IF va # << >> THEN va
    ELSE IF ca # << >> THEN ca
    ELSE IF ta # << >> THEN ta
    ELSE aa

(* lines 176-202 of checkSensorData: the four categories, in order *)
candidateList(va, ca, ta, aa) == va \o ca \o ta \o aa

(* line 212 of checkSensorData: return alerts *)
returnValue(candidates, unique) == candidates

----------------------------------------------------------------------------
(* DataProcessor: single-reading operations *)

Anomaly(type, severity, value, previous) ==
    [type |-> type, severity |-> severity, value |-> value, previous |-> previous]

(* faulty variant: the current rule is tested before the voltage rule *)
determineStatusCurrentFirst(data) ==
    IF ~truthy(data.current) \/ data.current < 10 THEN "warning"
    ELSE IF ~truthy(data.voltage) \/ data.voltage < 1000 THEN "critical"
    ELSE IF truthy(data.temperature) /\ data.temperature > 6000 THEN "warning"
    ELSE "normal"

determineStatus(data) ==
    IF ~truthy(data.voltage) \/ data.voltage < 1000 THEN "critical"
    ELSE IF ~truthy(data.current) \/ data.current < 10 THEN "warning"
    ELSE IF truthy(data.temperature) /\ data.temperature > 6000 THEN "warning"
    ELSE "normal"

(* dataPoint.current < 0.1 with a null current: null converts to 0 *)
belowTenthAmp(current) == current = NULL \/ current < 10

detectAnomalies(point, previous) ==
    IF point = NONE THEN << >>
    ELSE
      (IF previous # NONE /\ truthy(point.voltage) /\ truthy(previous.voltage)
          /\ previous.voltage - point.voltage > 200
       THEN << Anomaly("voltage_drop",
                       IF previous.voltage - point.voltage > 500
                       THEN "critical" ELSE "warning",
                       point.voltage, previous.voltage) >>
       ELSE << >>)
      \o
      (IF truthy(point.voltage) /\ point.voltage > 1200 /\ belowTenthAmp(point.current)
       THEN << Anomaly("zero_current", "warning", point.current, NULL) >>
       ELSE << >>)
      \o
      (IF truthy(point.temperature) /\ point.temperature > 5000
       THEN << Anomaly("high_temperature",
                       IF point.temperature > 6000 THEN "critical" ELSE "warning",
                       point.temperature, NULL) >>
       ELSE << >>)

ReadingIdle ==
    /\ dataPoint = NONE /\ lastReading = NONE
    /\ status = "unset" /\ anomalies = << >> /\ applied = {}

----------------------------------------------------------------------------
(* DataProcessor.calculateEnergyConsumption                                *)
(*                                                                         *)
(* A timestamp is a whole number of hours and a power a whole number of    *)
(* watts.  The result is in units of 1/2000 kWh: the source's sum of       *)
(* ((prev.power + curr.power) / 2) * hours, divided by 1000, is the        *)
(* integer below divided by 2000.                                          *)

(* prev.power || 0 *)
powerOrZero(reading) == IF truthy(reading.power) THEN reading.power ELSE 0

(* Array.prototype.sort is stable: a reading goes after those already      *)
(* placed whose timestamp is not later                                     *)
RECURSIVE insertByTimestamp(_, _)
insertByTimestamp(sorted, reading) ==
    IF sorted = << >> THEN << reading >>
    ELSE IF Head(sorted).timestamp <= reading.timestamp
         THEN << Head(sorted) >> \o insertByTimestamp(Tail(sorted), reading)
         ELSE << reading >> \o sorted

RECURSIVE sortFrom(_, _)
sortFrom(rest, sorted) ==
    IF rest = << >> THEN sorted
    ELSE sortFrom(Tail(rest), insertByTimestamp(sorted, Head(rest)))

(* faulty variant: the array is integrated in the order given *)
sortSkipped(points) == points

(* faulty variant: the comparator is reversed *)
RECURSIVE sortDescending(_)
sortDescending(points) ==
    IF points = << >> THEN << >>
    ELSE LET rest == sortDescending(Tail(points))
             later == SelectSeq(rest, LAMBDA r : r.timestamp >= Head(points).timestamp)
             earlier == SelectSeq(rest, LAMBDA r : r.timestamp < Head(points).timestamp)
         IN later \o << Head(points) >> \o earlier

(* dataPoints.sort((a, b) => new Date(a.timestamp) - new Date(b.timestamp)) *)
sortByTimestamp(points) == sortFrom(points, << >>)

RECURSIVE trapezoidFrom(_, _, _)
trapezoidFrom(points, i, totalEnergy) ==
    IF i > Len(points) THEN totalEnergy
    ELSE LET prev == points[i - 1]
             curr == points[i]
             timeDiff == curr.timestamp - prev.timestamp
         IN trapezoidFrom(points, i + 1,
                totalEnergy + (powerOrZero(prev) + powerOrZero(curr)) * timeDiff)

(* the array after the call *)
pointsAfterEnergy(points) ==
    IF points = NOARRAY \/ Len(points) < 2 THEN points ELSE sortByTimestamp(points)

calculateEnergyConsumption(points) ==
    IF points = NOARRAY \/ Len(points) < 2 THEN 0
    ELSE trapezoidFrom(sortByTimestamp(points), 2, 0)

EnergyIdle ==
    /\ dataPoints = << >> /\ givenPoints = << >>
    /\ energy = 0 /\ energyPc = "idle"
    /\ addedReading = NONE /\ energyWithAdded = 0

SeriesIdle ==
    /\ seriesPoints = << >> /\ interval = "hour"
    /\ timeSeries = << >> /\ seriesPc = "idle"

ReportIdle ==
    /\ stats = NONE /\ recommendations = << >>
    /\ reportPoints = << >> /\ report = NONE /\ reportPc = "idle"

TrendIdle ==
    /\ trendData = << >> /\ trend = NONE /\ trendPc = "idle"

StoreIdle ==
    /\ apiKeyValid = TRUE /\ rawData = NONE /\ stored = NONE
    /\ storePc = "idle" /\ response = NONE

ProcessIdle == procRaw = NONE /\ procResult = NONE /\ procPc = "idle"

LoginIdle ==
    /\ user = NONE /\ now = 0 /\ loginReqs = << >> /\ sessions = 0
    /\ loginLog = << >>

IngestIdle == readingsDb = << >> /\ ingestClock = 0 /\ ingestReqs = << >>

DeleteIdle ==
    /\ deleteBody = NONE /\ deleteQuery = NONE
    /\ deleteResponse = 0 /\ deletePc = "idle"

AckIdle == alertDoc = NONE /\ ackReqs = << >> /\ ackClock = 0

MoreIdle == ProcessIdle /\ LoginIdle /\ IngestIdle /\ DeleteIdle /\ AckIdle

(* process.env has no threshold variable *)
DefaultEnv == processEnv = NOENV

LaterIdle ==
    SeriesIdle /\ ReportIdle /\ TrendIdle /\ StoreIdle /\ MoreIdle /\ DefaultEnv

----------------------------------------------------------------------------
(* AlertChecker: inputs *)

(* process.env at module load *)
EnvConfigs ==
    { NOENV,
      [VOLTAGE_THRESHOLD_LOW |-> 50, VOLTAGE_THRESHOLD_CRITICAL |-> 25,
       CURRENT_THRESHOLD_LOW |-> 30, TEMPERATURE_THRESHOLD_HIGH |-> 45],
      [VOLTAGE_THRESHOLD_LOW |-> 10, VOLTAGE_THRESHOLD_CRITICAL |-> 20,
       CURRENT_THRESHOLD_LOW |-> 0, TEMPERATURE_THRESHOLD_HIGH |-> NAN],
      [VOLTAGE_THRESHOLD_LOW |-> 90, VOLTAGE_THRESHOLD_CRITICAL |-> 85,
       CURRENT_THRESHOLD_LOW |-> 100, TEMPERATURE_THRESHOLD_HIGH |-> 70] }

VoltageInputs == {NULL, 0, 119, 120, 239, 240, 900, 960, 1300}
CurrentInputs == {NULL, 0, 74, 75, 500}
TemperatureInputs == {NULL, 0, 6000, 6001, 7001}
PreviousVoltages == {NULL, 0, 500, 1260, 1300}
PreviousTemperatures == {NULL, 0 - 2000, 5000}
Hours == {7, 8, 16, 17}

SensorInputs ==
    {NONE} \cup [voltage : VoltageInputs, current : CurrentInputs,
                 temperature : TemperatureInputs]

PreviousInputs ==
    {NONE} \cup [voltage : PreviousVoltages, current : {NULL},
                 temperature : PreviousTemperatures]

----------------------------------------------------------------------------
(* AlertChecker.checkSensorData, up to its await of processAlerts' first    *)
(* delivery; processAlerts' filter and selection run without suspending    *)
CheckSensorData(sd, prev, h) ==
    /\ pc = "idle"
    /\ sensorData' = sd
    /\ previousData' = prev
    /\ hour' = h
    /\ sent' = << >>
    /\ emailErrors' = 0
    /\ emailIdx' = 1
    /\ UNCHANGED <<THRESHOLDS, readingVars, energyVars, laterVars>>
    /\ IF sd = NONE
       THEN /\ voltageAlerts' = << >> /\ currentAlerts' = << >>
            /\ tempAlerts' = << >> /\ anomalyAlerts' = << >>
            /\ alerts' = << >> /\ uniqueAlerts' = << >> /\ emailAlerts' = << >>
            /\ returned' = << >>
            /\ pc' = "returned"
       ELSE LET va == IF sd.voltage # NULL
                      THEN checkVoltage(sd.voltage, THRESHOLDS) ELSE << >>
                ca == IF sd.current # NULL
                      THEN checkCurrent(sd.current, h, THRESHOLDS) ELSE << >>
                ta == IF sd.temperature # NULL
                      THEN checkTemperature(sd.temperature, THRESHOLDS) ELSE << >>
                aa == IF prev # NONE THEN checkAnomalies(sd, prev) ELSE << >>
                all == candidateList(va, ca, ta, aa)
                unique == filterRecentDuplicates(all)
            IN /\ voltageAlerts' = va /\ currentAlerts' = ca
               /\ tempAlerts' = ta /\ anomalyAlerts' = aa
               /\ alerts' = all
               /\ IF Len(all) > 0
                  THEN /\ uniqueAlerts' = unique
                       /\ IF Len(unique) = 0
                          THEN /\ emailAlerts' = << >>
                               /\ returned' = returnValue(all, unique)
                               /\ pc' = "returned"
                          ELSE /\ emailAlerts' = selectEmailAlerts(unique)
                               /\ returned' = << >>
                               /\ pc' = "sending"
                  ELSE /\ uniqueAlerts' = << >> /\ emailAlerts' = << >>
                       /\ returned' = returnValue(all, << >>)
                       /\ pc' = "returned"

(* faulty variant: a rejected delivery leaves the loop *)
afterFailedDeliveryAbort(idx, list) == Len(list) + 1

(* the inner catch logs the rejected delivery and the for-of loop goes on  *)
(* to the next alert                                                       *)
afterFailedDelivery(idx, list) == idx + 1

(* one iteration of processAlerts' loop: the alert is handed to            *)
(* EmailService.sendAlertEmail, which resolves                             *)
SendAlertEmailOk ==
    /\ pc = "sending"
    /\ emailIdx <= Len(emailAlerts)
    /\ sent' = Append(sent, emailAlerts[emailIdx])
    /\ emailIdx' = emailIdx + 1
    /\ UNCHANGED <<THRESHOLDS, pc, sensorData, previousData, hour, voltageAlerts,
                   currentAlerts, tempAlerts, anomalyAlerts, alerts, uniqueAlerts,
                   emailAlerts, emailErrors, returned, readingVars, energyVars, laterVars>>

(* one iteration of processAlerts' loop: the delivery rejects and the      *)
(* inner catch logs it                                                     *)
SendAlertEmailFails ==
    /\ pc = "sending"
    /\ emailIdx <= Len(emailAlerts)
    /\ sent' = Append(sent, emailAlerts[emailIdx])
    /\ emailIdx' = afterFailedDelivery(emailIdx, emailAlerts)
    /\ emailErrors' = emailErrors + 1
    /\ UNCHANGED <<THRESHOLDS, pc, sensorData, previousData, hour, voltageAlerts,
                   currentAlerts, tempAlerts, anomalyAlerts, alerts, uniqueAlerts,
                   emailAlerts, returned, readingVars, energyVars, laterVars>>

(* processAlerts' loop is over; checkSensorData returns *)
ReturnAlerts ==
    /\ pc = "sending"
    /\ emailIdx > Len(emailAlerts)
    /\ returned' = returnValue(alerts, uniqueAlerts)
    /\ pc' = "returned"
    /\ UNCHANGED <<THRESHOLDS, sensorData, previousData, hour, voltageAlerts,
                   currentAlerts, tempAlerts, anomalyAlerts, alerts, uniqueAlerts,
                   emailAlerts, emailIdx, sent, emailErrors, readingVars, energyVars, laterVars>>

AlertIdle ==
    /\ pc = "idle"
    /\ sensorData = NONE /\ previousData = NONE /\ hour = 0
    /\ voltageAlerts = << >> /\ currentAlerts = << >> /\ tempAlerts = << >>
    /\ anomalyAlerts = << >> /\ alerts = << >> /\ uniqueAlerts = << >>
    /\ emailAlerts = << >> /\ emailIdx = 1 /\ sent = << >> /\ emailErrors = 0
    /\ returned = << >>

AlertInit ==
    /\ processEnv \in EnvConfigs
    /\ THRESHOLDS = loadThresholds(processEnv)
    /\ AlertIdle
    /\ ReadingIdle
    /\ EnergyIdle
    /\ SeriesIdle /\ ReportIdle /\ TrendIdle /\ StoreIdle /\ MoreIdle

AlertNext ==
    \/ /\ pc = "idle"
       /\ \E sd \in SensorInputs, prev \in PreviousInputs, h \in Hours :
             CheckSensorData(sd, prev, h)
    \/ SendAlertEmailOk
    \/ SendAlertEmailFails
    \/ ReturnAlerts

SpecAlert == AlertInit /\ [][AlertNext]_vars


----------------------------------------------------------------------------
(* AlertChecker.filterRecentDuplicates called on its own, on any batch *)

MaxBatch == 3

BatchAlerts ==
    { Alert(t, ALERT_SEVERITY.HIGH, v, NULL, TRUE) :
        t \in {ALERT_TYPES.VOLTAGE_DROP, ALERT_TYPES.TEMPERATURE_HIGH},
        v \in {1151, 1154, 1155, 0 - 5, 4} }

Batches == UNION { [1..n -> BatchAlerts] : n \in 0..MaxBatch }

FilterRecentDuplicates(batch) ==
    /\ pc = "idle"
    /\ alerts' = batch
    /\ uniqueAlerts' = filterRecentDuplicates(batch)
    /\ pc' = "filtered"
    /\ UNCHANGED <<THRESHOLDS, sensorData, previousData, hour, voltageAlerts,
                   currentAlerts, tempAlerts, anomalyAlerts, emailAlerts,
                   emailIdx, sent, emailErrors, returned, readingVars,
                   energyVars, laterVars>>

DedupNext ==
    /\ pc = "idle"
    /\ \E batch \in Batches : FilterRecentDuplicates(batch)

SpecDedup == AlertInit /\ [][DedupNext]_vars

----------------------------------------------------------------------------
(* Properties of AlertChecker *)

SeverityOf(list) == [i \in 1..Len(list) |-> list[i].severity]

Called == pc \in {"sending", "returned"} /\ sensorData # NONE

C3_CandidateOrder ==
    Called =>
        /\ alerts =
              (IF sensorData.voltage # NULL
               THEN checkVoltage(sensorData.voltage, THRESHOLDS) ELSE << >>)
              \o (IF sensorData.current # NULL
                  THEN checkCurrent(sensorData.current, hour, THRESHOLDS) ELSE << >>)
              \o (IF sensorData.temperature # NULL
                  THEN checkTemperature(sensorData.temperature, THRESHOLDS) ELSE << >>)
              \o (IF previousData # NONE
                  THEN checkAnomalies(sensorData, previousData) ELSE << >>)
        /\ alerts = voltageAlerts \o currentAlerts \o tempAlerts \o anomalyAlerts
        /\ (sensorData.current = 0 /\ hour \in 8..16) =>
              \E i, j \in 1..Len(alerts) :
                 /\ i < j
                 /\ alerts[i].type = "current_anomaly" /\ alerts[i].severity = "high"
                 /\ alerts[j].type = "current_anomaly" /\ alerts[j].severity = "medium"

C3_Witness ==
    /\ pc = "returned" /\ sensorData # NONE
    /\ sensorData.current = 0 /\ hour = 16
    /\ Len(voltageAlerts) = 1 /\ Len(currentAlerts) = 2
    /\ Len(tempAlerts) = 1 /\ Len(anomalyAlerts) = 2
    /\ Len(alerts) = 6

FirstOccurrence(list, i) ==
    \A j \in 1..(i - 1) :
        ~ ( list[j].type = list[i].type
            /\ (list[j].value + 5) \div 10 = (list[i].value + 5) \div 10 )

(* C4: filterRecentDuplicates returns the subsequence of its input made of  *)
(* the first alert of every key (type, round(value*10)): no two retained   *)
(* alerts share a key and every dropped alert follows a retained alert     *)
(* with its key.                                                           *)
C4_FirstOccurrenceWins ==
    pc = "filtered" =>
        LET keep == { i \in 1..Len(alerts) : FirstOccurrence(alerts, i) }
            ith(k) == CHOOSE i \in keep : Cardinality({ j \in keep : j < i }) = k - 1
        IN /\ Len(uniqueAlerts) = Cardinality(keep)
           /\ \A k \in 1..Len(uniqueAlerts) : uniqueAlerts[k] = alerts[ith(k)]
           /\ \A k \in 1..Len(uniqueAlerts) : FirstOccurrence(uniqueAlerts, k)
           /\ \A i \in (1..Len(alerts)) \ keep :
                 \E k \in 1..Len(uniqueAlerts) :
                    /\ ith(k) < i
                    /\ uniqueAlerts[k].type = alerts[i].type
                    /\ (uniqueAlerts[k].value + 5) \div 10 = (alerts[i].value + 5) \div 10

C4_Witness ==
    /\ pc = "filtered"
    /\ Len(alerts) = 3 /\ Len(uniqueAlerts) = 2
    /\ alerts[1].value = 1151 /\ alerts[2].value = 1154 /\ alerts[3].value = 1155
    /\ alerts[1].type = alerts[2].type /\ alerts[2].type = alerts[3].type
    /\ uniqueAlerts[1].value = 1151 /\ uniqueAlerts[2].value = 1155

CriticalOrHigh(alert) == alert.severity \in {"critical", "high"}

(* C5: the alerts handed to EmailService.sendAlertEmail are exactly the    *)
(* critical and high alerts of the deduplicated set, once each and in its  *)
(* order; a medium or low alert is never handed over.                      *)
C5_SinkGetsCriticalAndHigh ==
    /\ \A i \in 1..Len(sent) : sent[i].severity \notin {"medium", "low"}
    /\ pc = "sending" =>
          sent = SubSeq(SelectSeq(uniqueAlerts, CriticalOrHigh), 1, Len(sent))
    /\ (pc = "returned" /\ Len(alerts) > 0) =>
          sent = SelectSeq(uniqueAlerts, CriticalOrHigh)

C5_Witness ==
    /\ pc = "returned"
    /\ Len(sent) = 2 /\ Len(uniqueAlerts) = 3 /\ emailErrors = 1
    /\ \E i \in 1..Len(uniqueAlerts) : uniqueAlerts[i].severity = "medium"

(* C6: whenever the current and the previous voltage are present and the   *)
(* voltage fell by more than 3V, a critical voltage_drop alert is handed   *)
(* to the notification sink.                                               *)
C6_SuddenDropNotified ==
    ( /\ pc = "returned" /\ sensorData # NONE /\ previousData # NONE
      /\ sensorData.voltage # NULL /\ previousData.voltage # NULL
      /\ previousData.voltage - sensorData.voltage > 300 ) =>
        \E i \in 1..Len(sent) :
            sent[i].type = "voltage_drop" /\ sent[i].severity = "critical"

(* C7: the list checkSensorData returns never holds two alerts with the    *)
(* same type and the same round(value*10).                                 *)
C7_ReturnedIsDeduplicated ==
    pc = "returned" =>
        \A k \in 1..Len(returned) : FirstOccurrence(returned, k)


----------------------------------------------------------------------------
(* DataProcessor: single-reading operations on any reading *)

PointVoltages == {NULL, 0, 950, 999, 1000, 1201, 5000}
PointCurrents == {NULL, 0, 9, 10, 3000}
PointTemperatures == {NULL, 0 - 2000, 0, 5001, 6000, 6001}
LastVoltages == {NULL, 0, 201, 1200, 1201, 1500, 1501}

DataPointInputs ==
    {NONE} \cup [voltage : PointVoltages, current : PointCurrents,
                 temperature : PointTemperatures]

LastReadingInputs ==
    {NONE} \cup [voltage : LastVoltages, current : {NULL}, temperature : {NULL}]

DetermineStatus ==
    /\ dataPoint # NONE
    /\ "determineStatus" \notin applied
    /\ status' = determineStatus(dataPoint)
    /\ applied' = applied \cup {"determineStatus"}
    /\ UNCHANGED <<alertVars, dataPoint, lastReading, anomalies, energyVars, laterVars>>

DetectAnomalies ==
    /\ "detectAnomalies" \notin applied
    /\ anomalies' = detectAnomalies(dataPoint, lastReading)
    /\ applied' = applied \cup {"detectAnomalies"}
    /\ UNCHANGED <<alertVars, dataPoint, lastReading, status, energyVars, laterVars>>

ReadingInit ==
    /\ THRESHOLDS = loadThresholds(NOENV)
    /\ AlertIdle
    /\ EnergyIdle
    /\ LaterIdle
    /\ dataPoint \in DataPointInputs
    /\ lastReading \in LastReadingInputs
    /\ status = "unset"
    /\ anomalies = << >>
    /\ applied = {}

ReadingNext == DetermineStatus \/ DetectAnomalies

SpecReading == ReadingInit /\ [][ReadingNext]_vars

(* C1: determineStatus returns critical when the voltage is absent or      *)
(* below 10V, else warning when the current is absent or below 0.1A, else  *)
(* warning when the temperature is present and above 60 degrees, else      *)
(* normal, for every reading in the valid ranges, and nothing else.        *)
C1_StatusPrecedence ==
    "determineStatus" \in applied =>
        /\ status \in {"critical", "warning", "normal"}
        /\ status =
              IF dataPoint.voltage = NULL \/ dataPoint.voltage < 1000 THEN "critical"
              ELSE IF dataPoint.current = NULL \/ dataPoint.current < 10 THEN "warning"
              ELSE IF dataPoint.temperature # NULL /\ dataPoint.temperature > 6000
                   THEN "warning"
              ELSE "normal"

C1_Witness ==
    /\ "determineStatus" \in applied
    /\ status = "critical"
    /\ dataPoint.voltage = 950 /\ dataPoint.current = 0
    /\ dataPoint.temperature = 6001

HasVoltageDrop(list) == \E i \in 1..Len(list) : list[i].type = "voltage_drop"

(* C8: detectAnomalies emits a voltage_drop anomaly exactly when a         *)
(* previous reading with a voltage is given and the voltage fell by more   *)
(* than 2.0V, for every current voltage in 0..50V, 0 included; it is       *)
(* critical when the fall exceeds 5.0V and a warning otherwise.            *)
C8_VoltageDropAnomaly ==
    ("detectAnomalies" \in applied /\ dataPoint # NONE /\ dataPoint.voltage # NULL) =>
        LET fell == /\ lastReading # NONE
                    /\ lastReading.voltage # NULL
                    /\ lastReading.voltage - dataPoint.voltage > 200
        IN /\ HasVoltageDrop(anomalies) <=> fell
           /\ \A i \in 1..Len(anomalies) :
                 anomalies[i].type = "voltage_drop" =>
                    anomalies[i].severity =
                       IF lastReading.voltage - dataPoint.voltage > 500
                       THEN "critical" ELSE "warning"

----------------------------------------------------------------------------
(* DataProcessor.calculateEnergyConsumption on any collection of readings *)

MaxReadings == 3

Timestamps == {0, 1, 3}
Powers == {NULL, 0, 10, 25}

Readings == [timestamp : Timestamps, power : Powers]

ReadingLists == UNION { [1..n -> Readings] : n \in 0..MaxReadings }

CalculateEnergyConsumption ==
    /\ energyPc = "ready"
    /\ energy' = calculateEnergyConsumption(dataPoints)
    /\ dataPoints' = pointsAfterEnergy(dataPoints)
    /\ energyPc' = "done"
    /\ UNCHANGED <<alertVars, readingVars, givenPoints, addedReading,
                   energyWithAdded, laterVars>>

EnergyInit ==
    /\ THRESHOLDS = loadThresholds(NOENV)
    /\ AlertIdle
    /\ ReadingIdle
    /\ LaterIdle
    /\ dataPoints \in ReadingLists \cup {NOARRAY}
    /\ givenPoints = dataPoints
    /\ energy = 0
    /\ energyPc = "ready"
    /\ addedReading = NONE
    /\ energyWithAdded = 0

EnergyNext == CalculateEnergyConsumption

SpecEnergy == EnergyInit /\ [][EnergyNext]_vars

PowerOf(r) == IF r.power = NULL THEN 0 ELSE r.power

(* the readings of list in ascending timestamp order, readings of one      *)
(* timestamp in the order given                                            *)
Ascending(list) ==
    LET n == Len(list)
        before(j, i) == \/ list[j].timestamp < list[i].timestamp
                        \/ list[j].timestamp = list[i].timestamp /\ j < i
        rank(i) == Cardinality({ j \in 1..n : before(j, i) }) + 1
    IN [k \in 1..n |-> list[CHOOSE i \in 1..n : rank(i) = k]]

RECURSIVE TrapezoidSum(_, _)
TrapezoidSum(list, n) ==
    IF n < 2 THEN 0
    ELSE TrapezoidSum(list, n - 1)
         + (PowerOf(list[n - 1]) + PowerOf(list[n]))
           * (list[n].timestamp - list[n - 1].timestamp)

Reorderings(list) ==
    { [k \in 1..Len(list) |-> list[f[k]]] : f \in Permutations(1..Len(list)) }

DistinctTimestamps(list) ==
    \A i, j \in 1..Len(list) : i # j => list[i].timestamp # list[j].timestamp

IsList(x) == x # NOARRAY

(* C9 as claimed: the result is the trapezoidal sum over the readings      *)
(* sorted ascending by timestamp, and it is the same for every             *)
(* permutation of the same readings.                                       *)
C9_SameForEveryPermutation ==
    (energyPc = "done" /\ IsList(givenPoints)) =>
        /\ energy = TrapezoidSum(Ascending(givenPoints), Len(givenPoints))
        /\ \A other \in Reorderings(givenPoints) :
              calculateEnergyConsumption(other) = energy

(* C9 amended: the result is the trapezoidal sum over the readings sorted  *)
(* ascending by timestamp, readings of equal timestamp kept in the order   *)
(* given; it is the same for every permutation of readings whose           *)
(* timestamps are pairwise distinct.                                       *)
C9_TrapezoidOverStableSort ==
    (energyPc = "done" /\ IsList(givenPoints)) =>
        /\ energy = TrapezoidSum(Ascending(givenPoints), Len(givenPoints))
        /\ (DistinctTimestamps(givenPoints) =>
              \A other \in Reorderings(givenPoints) :
                 calculateEnergyConsumption(other) = energy)

C9_Witness ==
    /\ energyPc = "done" /\ IsList(givenPoints)
    /\ Len(givenPoints) = 3
    /\ DistinctTimestamps(givenPoints)
    /\ givenPoints[1].timestamp = 3 /\ givenPoints[2].timestamp = 0
    /\ givenPoints[2].power = NULL /\ givenPoints[3].power = 25
    /\ energy > 0

(* C10: the result is 0 for an absent, an empty or a single-reading input  *)
(* and is never negative when every power is absent or at least 0,         *)
(* whatever the order of the timestamps given.                             *)
C10_ZeroOrNonNegative ==
    energyPc = "done" =>
        /\ ((~IsList(givenPoints) \/ Len(givenPoints) < 2) => energy = 0)
        /\ (( /\ IsList(givenPoints)
              /\ \A i \in 1..Len(givenPoints) :
                    givenPoints[i].power = NULL \/ givenPoints[i].power >= 0 )
            => energy >= 0)

C10_Witness ==
    /\ energyPc = "done" /\ IsList(givenPoints)
    /\ Len(givenPoints) = 3
    /\ givenPoints[1].timestamp = 3 /\ givenPoints[2].timestamp = 1
    /\ givenPoints[3].timestamp = 0
    /\ givenPoints[1].power = 10 /\ givenPoints[3].power = 25
    /\ energy > 0

----------------------------------------------------------------------------
(* DataProcessor.calculateEnergyConsumption after the caller adds a reading *)

(* the caller pushes one more reading onto its array and integrates again *)
AddReading(r) ==
    /\ addedReading' = r
    /\ energyWithAdded' = calculateEnergyConsumption(Append(dataPoints, r))
    /\ dataPoints' = pointsAfterEnergy(Append(dataPoints, r))
    /\ energyPc' = "added"
    /\ UNCHANGED <<alertVars, readingVars, givenPoints, energy, laterVars>>

EnergyAddNext ==
    \/ CalculateEnergyConsumption
    \/ /\ energyPc = "done" /\ IsList(dataPoints)
       /\ \E r \in Readings : AddReading(r)

SpecEnergyAdd == EnergyInit /\ [][EnergyAddNext]_vars

NonNegativePowers(list) == \A i \in 1..Len(list) : list[i].power >= 0

(* the timestamp lies between the earliest and the latest of the list *)
WithinSpan(list, r) ==
    /\ \E i \in 1..Len(list) : list[i].timestamp <= r.timestamp
    /\ \E i \in 1..Len(list) : list[i].timestamp >= r.timestamp

(* the readings next to r in timestamp order once r is added to list *)
NeighboursOf(list, r) ==
    LET all == Ascending(Append(list, r))
        k == Cardinality({ i \in 1..Len(list) :
                             list[i].timestamp <= r.timestamp }) + 1
    IN { all[j] : j \in {k - 1, k + 1} \cap (1..Len(all)) }

AddedWithinSpan ==
    /\ energyPc = "added"
    /\ NonNegativePowers(givenPoints)
    /\ addedReading.power >= 0
    /\ WithinSpan(givenPoints, addedReading)

----------------------------------------------------------------------------
(* DataProcessor.generateTimeSeriesData                                    *)
(*                                                                         *)
(* A Date is the record of its calendar fields [year, month, date, hours], *)
(* month counted from 1; the process runs in UTC, so the local fields and  *)
(* the ISO date agree.  A string is the sequence of its                    *)
(* character codes, which is what the comparison of two keys compares.     *)
(* The four sensor fields of a reading are in hundredths of their unit.    *)

(* The calendar of the Date object.  A timestamp is a whole number of     *)
(* hours since 1 January 2023, 00:00 UTC.                                  *)
IsLeapYear(y) == (y % 4 = 0 /\ y % 100 # 0) \/ y % 400 = 0

DaysInMonth(y, m) ==
    IF m = 2 THEN (IF IsLeapYear(y) THEN 29 ELSE 28)
    ELSE IF m \in {4, 6, 9, 11} THEN 30 ELSE 31

RECURSIVE dateFromDays(_, _, _)
dateFromDays(days, y, m) ==
    IF days < DaysInMonth(y, m) THEN [year |-> y, month |-> m, date |-> days + 1]
    ELSE IF m = 12 THEN dateFromDays(days - DaysInMonth(y, m), y + 1, 1)
    ELSE dateFromDays(days - DaysInMonth(y, m), y, m + 1)

(* new Date(data.timestamp): the calendar fields of a timestamp *)
newDate(timestamp) ==
    LET day == dateFromDays(timestamp \div 24, 2023, 1)
    IN [year |-> day.year, month |-> day.month, date |-> day.date,
        hours |-> timestamp % 24]

getFullYear(date) == date.year
getMonth(date) == date.month - 1
getDate(date) == date.date
getHours(date) == date.hours

(* the decimal digits of a number in a template literal, no padding *)
RECURSIVE numberToString(_)
numberToString(n) ==
    IF n < 10 THEN << 48 + n >>
    ELSE numberToString(n \div 10) \o << 48 + (n % 10) >>

(* toISOString pads month and date to two digits *)
padTwo(n) == IF n < 10 THEN << 48 >> \o numberToString(n) ELSE numberToString(n)

(* date.toISOString().split('T')[0] *)
isoDate(date) ==
    numberToString(getFullYear(date)) \o << 45 >> \o padTwo(getMonth(date) + 1)
        \o << 45 >> \o padTwo(getDate(date))

(* Math.ceil(date.getDate() / 7) *)
weekNumber(date) == (getDate(date) + 6) \div 7

(* the switch on interval; 45 is '-', 32 ' ', 58 ':', 48 '0', 87 'W' *)
bucketKey(timestamp, intervalArg) ==
    LET date == newDate(timestamp)
    IN
    CASE intervalArg = "hour" ->
            numberToString(getFullYear(date)) \o << 45 >>
                \o numberToString(getMonth(date) + 1) \o << 45 >>
                \o numberToString(getDate(date)) \o << 32 >>
                \o numberToString(getHours(date)) \o << 58, 48, 48 >>
      [] intervalArg = "day" ->
            numberToString(getFullYear(date)) \o << 45 >>
                \o numberToString(getMonth(date) + 1) \o << 45 >>
                \o numberToString(getDate(date))
      [] intervalArg = "week" ->
            numberToString(getFullYear(date)) \o << 45, 87 >>
                \o numberToString(weekNumber(date))
      [] OTHER -> isoDate(date)

(* a < b on strings: code units compared left to right, a proper prefix    *)
(* being smaller                                                           *)
RECURSIVE stringLess(_, _)
stringLess(a, b) ==
    IF b = << >> THEN FALSE
    ELSE IF a = << >> THEN TRUE
    ELSE IF Head(a) # Head(b) THEN Head(a) < Head(b)
    ELSE stringLess(Tail(a), Tail(b))

(* Object.keys(grouped): the keys in the order they were first assigned *)
RECURSIVE groupedKeys(_, _, _)
groupedKeys(points, intervalArg, keys) ==
    IF points = << >> THEN keys
    ELSE LET key == bucketKey(Head(points).timestamp, intervalArg)
         IN groupedKeys(Tail(points), intervalArg,
                IF \E i \in 1..Len(keys) : keys[i] = key
                THEN keys ELSE Append(keys, key))

(* the readings that fell under key *)
groupOf(points, intervalArg, key) ==
    SelectSeq(points, LAMBDA d : bucketKey(d.timestamp, intervalArg) = key)

(* if (data.voltage) grouped[key].voltages.push(data.voltage), per field *)
pushedValues(group, field) ==
    LET kept == SelectSeq(group, LAMBDA d : truthy(d[field]))
    IN [i \in 1..Len(kept) |-> kept[i][field]]

(* values.reduce((a, b) => a + b, 0) *)
RECURSIVE sumOf(_)
sumOf(values) == IF values = << >> THEN 0 ELSE Head(values) + sumOf(Tail(values))

(* parseFloat((num / den).toFixed(f)) in units of 10^-f: the nearest       *)
(* multiple, a tie going away from zero                                    *)
roundedQuotient(num, den) ==
    IF num >= 0 THEN (2 * num + den) \div (2 * den)
    ELSE 0 - ((2 * (0 - num) + den) \div (2 * den))

(* the average of a field's pushed values, 0 when there are none; up/down  *)
(* is the factor from hundredths to the unit of the rounded result         *)
averageOf(values, up, down) ==
    IF Len(values) > 0
    THEN roundedQuotient(sumOf(values) * up, Len(values) * down)
    ELSE 0

(* voltage toFixed(2) in hundredths, current toFixed(3) in thousandths,    *)
(* temperature and power toFixed(1) in tenths                              *)
bucketOf(points, intervalArg, key) ==
    LET group == groupOf(points, intervalArg, key)
    IN [timestamp |-> key,
        voltage |-> averageOf(pushedValues(group, "voltage"), 1, 1),
        current |-> averageOf(pushedValues(group, "current"), 10, 1),
        temperature |-> averageOf(pushedValues(group, "temperature"), 1, 10),
        power |-> averageOf(pushedValues(group, "power"), 1, 10),
        readings |-> Len(pushedValues(group, "voltage"))]

(* timeSeries.sort by string comparison of the keys; the sort is stable *)
RECURSIVE insertByKey(_, _)
insertByKey(sorted, bucket) ==
    IF sorted = << >> THEN << bucket >>
    ELSE IF stringLess(bucket.timestamp, Head(sorted).timestamp)
         THEN << bucket >> \o sorted
         ELSE << Head(sorted) >> \o insertByKey(Tail(sorted), bucket)

RECURSIVE sortByKey(_, _)
sortByKey(rest, sorted) ==
    IF rest = << >> THEN sorted
    ELSE sortByKey(Tail(rest), insertByKey(sorted, Head(rest)))

generateTimeSeriesData(points, intervalArg) ==
    IF points = NOARRAY \/ Len(points) = 0 THEN << >>
    ELSE LET keys == groupedKeys(points, intervalArg, << >>)
             unsorted == [i \in 1..Len(keys) |->
                             bucketOf(points, intervalArg, keys[i])]
         IN sortByKey(unsorted, << >>)

----------------------------------------------------------------------------
(* DataProcessor.generateTimeSeriesData on any collection of readings *)

MaxSeries == 2

RECURSIVE DaysBeforeMonth(_, _)
DaysBeforeMonth(y, m) ==
    IF m = 1 THEN 0 ELSE DaysBeforeMonth(y, m - 1) + DaysInMonth(y, m - 1)

(* days since Monday, 1 January of year 1 *)
DayNumber(y, m, d) ==
    365 * (y - 1) + ((y - 1) \div 4) - ((y - 1) \div 100) + ((y - 1) \div 400)
        + DaysBeforeMonth(y, m) + d - 1

(* the timestamp of an hour of a calendar day *)
HourAt(y, m, d, h) == (DayNumber(y, m, d) - DayNumber(2023, 1, 1)) * 24 + h

SeriesTimestamps ==
    { HourAt(2024, 1, 5, 9), HourAt(2024, 1, 5, 10), HourAt(2024, 1, 10, 9),
      HourAt(2024, 1, 8, 9), HourAt(2024, 2, 3, 9), HourAt(2024, 10, 5, 10),
      HourAt(2023, 12, 31, 23) }

(* the sensor fields of a reading: all absent, all zero, and two ordinary  *)
(* readings within the schema's ranges                                     *)
SeriesValues ==
    { [voltage |-> NULL, current |-> NULL, temperature |-> NULL, power |-> NULL],
      [voltage |-> 0, current |-> 0, temperature |-> 0, power |-> 0],
      [voltage |-> 1200, current |-> 500, temperature |-> 2550, power |-> 6000],
      [voltage |-> 1301, current |-> 75, temperature |-> 0 - 505, power |-> 976] }

SeriesReadings ==
    { [timestamp |-> t, voltage |-> v.voltage, current |-> v.current,
       temperature |-> v.temperature, power |-> v.power] :
         t \in SeriesTimestamps, v \in SeriesValues }

SeriesLists == UNION { [1..n -> SeriesReadings] : n \in 0..MaxSeries }

Intervals == {"hour", "day", "week", "month"}

GenerateTimeSeriesData ==
    /\ seriesPc = "ready"
    /\ timeSeries' = generateTimeSeriesData(seriesPoints, interval)
    /\ seriesPc' = "done"
    /\ UNCHANGED <<alertVars, readingVars, energyVars, seriesPoints, interval,
                   reportVars, trendVars, storeVars, moreVars>>

SeriesInit ==
    /\ THRESHOLDS = loadThresholds(NOENV)
    /\ AlertIdle /\ ReadingIdle /\ EnergyIdle /\ MoreIdle /\ DefaultEnv
    /\ ReportIdle /\ TrendIdle /\ StoreIdle
    /\ seriesPoints \in SeriesLists \cup {NOARRAY}
    /\ interval \in Intervals
    /\ timeSeries = << >>
    /\ seriesPc = "ready"

SeriesNext == GenerateTimeSeriesData

SpecSeries == SeriesInit /\ [][SeriesNext]_vars

SeriesDone == seriesPc = "done" /\ IsList(seriesPoints)

(* the readings grouped into a bucket *)
ReadingsOf(bucket) ==
    { i \in 1..Len(seriesPoints) :
        bucketKey(seriesPoints[i].timestamp, interval) = bucket.timestamp }

(* the values of a field over the readings of a bucket that have it *)
PresentIn(bucket, field) ==
    { i \in ReadingsOf(bucket) : seriesPoints[i][field] # NULL }

RECURSIVE SumOver(_, _)
SumOver(indices, field) ==
    IF indices = {} THEN 0
    ELSE LET i == CHOOSE i \in indices : TRUE
         IN seriesPoints[i][field] + SumOver(indices \ {i}, field)

MeanOfPresent(bucket, field, up, down) ==
    roundedQuotient(SumOver(PresentIn(bucket, field), field) * up,
                    Cardinality(PresentIn(bucket, field)) * down)

(* C12: every bucket's voltage, current, temperature and power is the      *)
(* mean of that field over the bucket's readings that have it, a present   *)
(* 0 counted like any other value, and its readings count is the number    *)
(* of readings that gave a voltage sample.                                 *)
C12_MeanOfPresentValues ==
    SeriesDone =>
        \A k \in 1..Len(timeSeries) :
            LET bucket == timeSeries[k]
            IN /\ (PresentIn(bucket, "voltage") # {} =>
                     bucket.voltage = MeanOfPresent(bucket, "voltage", 1, 1))
               /\ (PresentIn(bucket, "current") # {} =>
                     bucket.current = MeanOfPresent(bucket, "current", 10, 1))
               /\ (PresentIn(bucket, "temperature") # {} =>
                     bucket.temperature = MeanOfPresent(bucket, "temperature", 1, 10))
               /\ (PresentIn(bucket, "power") # {} =>
                     bucket.power = MeanOfPresent(bucket, "power", 1, 10))
               /\ bucket.readings = Cardinality(PresentIn(bucket, "voltage"))

(* the hour and the day a timestamp lies in *)
HourOrdinal(timestamp) == timestamp

DayOrdinal(timestamp) == timestamp \div 24

(* C13: with interval 'hour' or 'day' the buckets are returned in          *)
(* chronological order: a bucket listed before another covers an earlier   *)
(* hour, or day.                                                           *)
C13_BucketsChronological ==
    (SeriesDone /\ interval \in {"hour", "day"}) =>
        \A k, l \in 1..Len(timeSeries) :
            k < l =>
              \A i \in ReadingsOf(timeSeries[k]), j \in ReadingsOf(timeSeries[l]) :
                 IF interval = "hour"
                 THEN HourOrdinal(seriesPoints[i].timestamp)
                        < HourOrdinal(seriesPoints[j].timestamp)
                 ELSE DayOrdinal(seriesPoints[i].timestamp)
                        < DayOrdinal(seriesPoints[j].timestamp)

(* the calendar week, Monday to Sunday, a timestamp lies in *)
CalendarWeek(timestamp) == (DayNumber(2023, 1, 1) + (timestamp \div 24)) \div 7

(* C14: with interval 'week' two readings are grouped into the same        *)
(* bucket only if their timestamps lie in the same calendar week.          *)
C14_BucketIsOneCalendarWeek ==
    (SeriesDone /\ interval = "week") =>
        \A k \in 1..Len(timeSeries) :
            \A i, j \in ReadingsOf(timeSeries[k]) :
                CalendarWeek(seriesPoints[i].timestamp)
                    = CalendarWeek(seriesPoints[j].timestamp)

----------------------------------------------------------------------------
(* DataProcessor: daily statistics, recommendations and the summary report *)
(*                                                                         *)
(* The sensor fields of a reading are in hundredths of their unit, so the  *)
(* integrated energy E is in units of 1/200000 kWh.  Of the statistics,    *)
(* totalEnergy is in thousandths of a kWh, avgVoltage and minVoltage in    *)
(* hundredths, avgCurrent in thousandths, maxTemperature, peakPower and    *)
(* efficiency in tenths.  A recommendation's message and action are fixed  *)
(* texts of its type and are not part of a recommendation here.            *)

(* const ratedPower = 100, in watts *)
ratedPower == 100

fieldValues(points, field) == [i \in 1..Len(points) |-> points[i][field]]

(* dataPoints.filter(d => d.voltage !== null), per field *)
validValues(points, field) ==
    SelectSeq(fieldValues(points, field), LAMBDA x : x # NULL)

RECURSIVE minOf(_)
minOf(values) ==
    IF Len(values) = 1 THEN Head(values)
    ELSE LET rest == minOf(Tail(values))
         IN IF Head(values) < rest THEN Head(values) ELSE rest

RECURSIVE maxOf(_)
maxOf(values) ==
    IF Len(values) = 1 THEN Head(values)
    ELSE LET rest == maxOf(Tail(values))
         IN IF Head(values) > rest THEN Head(values) ELSE rest

(* if (data.power && data.power > peakPower) peakPower = data.power *)
RECURSIVE peakPowerFrom(_, _)
peakPowerFrom(points, peakPower) ==
    IF points = << >> THEN peakPower
    ELSE peakPowerFrom(Tail(points),
            IF truthy(Head(points).power) /\ Head(points).power > peakPower
            THEN Head(points).power ELSE peakPower)

calculateDailyStats(points) ==
    IF points = NOARRAY \/ Len(points) = 0
    THEN [totalEnergy |-> 0, avgVoltage |-> 0, avgCurrent |-> 0,
          maxTemperature |-> 0, minVoltage |-> 0, peakPower |-> 0,
          efficiency |-> 0, dataPoints |-> UNDEFINED]
    ELSE LET voltages == validValues(points, "voltage")
             currents == validValues(points, "current")
             temperatures == validValues(points, "temperature")
             totalEnergy == calculateEnergyConsumption(points)
         IN [totalEnergy |-> roundedQuotient(totalEnergy, 200),
             avgVoltage |-> IF Len(voltages) > 0
                            THEN roundedQuotient(sumOf(voltages), Len(voltages))
                            ELSE 0,
             avgCurrent |-> IF Len(currents) > 0
                            THEN roundedQuotient(sumOf(currents) * 10, Len(currents))
                            ELSE 0,
             maxTemperature |-> IF Len(temperatures) > 0
                                THEN roundedQuotient(maxOf(temperatures), 10)
                                ELSE 0,
             minVoltage |-> IF Len(voltages) > 0 THEN minOf(voltages) ELSE 0,
             peakPower |-> roundedQuotient(peakPowerFrom(points, 0), 10),
             efficiency |-> roundedQuotient(totalEnergy * 10, 2 * ratedPower * 5),
             dataPoints |-> Len(points)]

(* x < limit and x > limit on a number or a missing property: undefined    *)
(* and NaN compare false with everything, null compares as 0               *)
lessThan(x, limit) ==
    x \notin {UNDEFINED, NAN} /\ (IF x = NULL THEN 0 ELSE x) < limit

greaterThan(x, limit) ==
    x \notin {UNDEFINED, NAN} /\ (IF x = NULL THEN 0 ELSE x) > limit

Recommendation(type, priority) == [type |-> type, priority |-> priority]

(* faulty variant: the rules form an else-if chain *)
generateRecommendationsFirstOnly(s) ==
    IF lessThan(s.efficiency, 700)
    THEN << Recommendation("efficiency", "high") >>
    ELSE IF lessThan(s.minVoltage, 1150)
    THEN << Recommendation("voltage", "critical") >>
    ELSE IF greaterThan(s.maxTemperature, 550)
    THEN << Recommendation("temperature", "medium") >>
    ELSE IF lessThan(s.dataPoints, 100)
    THEN << Recommendation("data", "low") >>
    ELSE << >>

(* efficiency < 70, minVoltage < 11.5, maxTemperature > 55, dataPoints < 100 *)
generateRecommendations(s) ==
    (IF lessThan(s.efficiency, 700)
     THEN << Recommendation("efficiency", "high") >> ELSE << >>)
    \o (IF lessThan(s.minVoltage, 1150)
        THEN << Recommendation("voltage", "critical") >> ELSE << >>)
    \o (IF greaterThan(s.maxTemperature, 550)
        THEN << Recommendation("temperature", "medium") >> ELSE << >>)
    \o (IF lessThan(s.dataPoints, 100)
        THEN << Recommendation("data", "low") >> ELSE << >>)

(* the first bucket, replaced by a later one of strictly greater power *)
RECURSIVE peakHourFrom(_, _)
peakHourFrom(series, peakHour) ==
    IF series = << >> THEN peakHour
    ELSE peakHourFrom(Tail(series),
            IF Head(series).power > peakHour.power THEN Head(series) ELSE peakHour)

findPeakHour(series) ==
    IF Len(series) = 0 THEN NONE ELSE peakHourFrom(series, series[1])

(* Object.keys(byDay): the ISO dates in the order they were first seen *)
RECURSIVE byDayKeys(_, _)
byDayKeys(points, keys) ==
    IF points = << >> THEN keys
    ELSE LET date == isoDate(newDate(Head(points).timestamp))
         IN byDayKeys(Tail(points),
                IF \E i \in 1..Len(keys) : keys[i] = date
                THEN keys ELSE Append(keys, date))

(* byDay[date] *)
byDay(points, date) ==
    SelectSeq(points, LAMBDA d : isoDate(newDate(d.timestamp)) = date)

(* the forEach over the days: peak is << peakDay, peakEnergy >> *)
RECURSIVE peakDayFrom(_, _, _)
peakDayFrom(points, dates, peak) ==
    IF dates = << >> THEN peak[1]
    ELSE LET dayEnergy == calculateEnergyConsumption(byDay(points, Head(dates)))
         IN peakDayFrom(points, Tail(dates),
                IF dayEnergy > peak[2]
                THEN << [date |-> Head(dates), energy |-> dayEnergy,
                         dataPoints |-> Len(byDay(points, Head(dates)))],
                        dayEnergy >>
                ELSE peak)

findPeakDay(points) ==
    peakDayFrom(points, byDayKeys(points, << >>), << NONE, 0 >>)

(* the report without its period, which repeats the two date arguments;    *)
(* calculateDailyStats has sorted the array when the later calls read it   *)
generateSummaryReport(points) ==
    LET dailyStats == calculateDailyStats(points)
        sorted == pointsAfterEnergy(points)
        series == generateTimeSeriesData(sorted, "hour")
    IN [summary |-> dailyStats,
        timeSeries |-> series,
        peakPerformance |-> [hour |-> findPeakHour(series),
                             day |-> findPeakDay(sorted)],
        recommendations |-> generateRecommendations(dailyStats)]

----------------------------------------------------------------------------
(* DataProcessor.generateRecommendations on any statistics object *)

StatsInputs ==
    [efficiency : {0, 699, 700, 1200},
     minVoltage : {0, 1149, 1150, 1400},
     maxTemperature : {0 - 200, 550, 551},
     dataPoints : {UNDEFINED, 0, 99, 100}]

GenerateRecommendations ==
    /\ reportPc = "ready"
    /\ recommendations' = generateRecommendations(stats)
    /\ reportPc' = "recommended"
    /\ UNCHANGED <<alertVars, readingVars, energyVars, seriesVars, stats,
                   reportPoints, report, trendVars, storeVars, moreVars>>

RecommendInit ==
    /\ THRESHOLDS = loadThresholds(NOENV)
    /\ AlertIdle /\ ReadingIdle /\ EnergyIdle /\ MoreIdle /\ DefaultEnv
    /\ SeriesIdle /\ TrendIdle /\ StoreIdle
    /\ stats \in StatsInputs
    /\ recommendations = << >>
    /\ reportPoints = << >>
    /\ report = NONE
    /\ reportPc = "ready"

RecommendNext == GenerateRecommendations

SpecRecommend == RecommendInit /\ [][RecommendNext]_vars

(* the four rules in their fixed order, each with its condition *)
RulesFor(s) ==
    << [type |-> "efficiency", priority |-> "high", holds |-> s.efficiency < 700],
       [type |-> "voltage", priority |-> "critical", holds |-> s.minVoltage < 1150],
       [type |-> "temperature", priority |-> "medium",
        holds |-> s.maxTemperature > 550],
       [type |-> "data", priority |-> "low", holds |-> s.dataPoints < 100] >>

ExpectedRecommendations(s) ==
    LET due == SelectSeq(RulesFor(s), LAMBDA r : r.holds)
    IN [i \in 1..Len(due) |-> [type |-> due[i].type, priority |-> due[i].priority]]

NumericStats(s) ==
    /\ s # NONE
    /\ s.efficiency # UNDEFINED /\ s.minVoltage # UNDEFINED
    /\ s.maxTemperature # UNDEFINED /\ s.dataPoints # UNDEFINED

(* C15: for numeric statistics the recommendations returned are exactly    *)
(* those whose condition holds, in the order efficiency < 70 (high),       *)
(* minVoltage < 11.5 (critical), maxTemperature > 55 (medium),             *)
(* dataPoints < 100 (low), none of them twice.                             *)
C15_ExactlyTheDueRecommendations ==
    (reportPc = "recommended" /\ NumericStats(stats)) =>
        /\ recommendations = ExpectedRecommendations(stats)
        /\ \A i, j \in 1..Len(recommendations) :
              i # j => recommendations[i].type # recommendations[j].type

C15_Witness ==
    /\ reportPc = "recommended"
    /\ stats = [efficiency |-> 699, minVoltage |-> 1149,
                maxTemperature |-> 551, dataPoints |-> 99]
    /\ Len(recommendations) = 4
    /\ recommendations[4] = [type |-> "data", priority |-> "low"]

----------------------------------------------------------------------------
(* DataProcessor.generateSummaryReport on any collection of readings *)

MaxReport == 3

ReportTimestamps ==
    { HourAt(2024, 1, 5, 9), HourAt(2024, 1, 5, 11),
      HourAt(2024, 1, 6, 9), HourAt(2024, 1, 6, 10) }

ReportValues ==
    { [voltage |-> 0, current |-> 0, temperature |-> 0, power |-> 0],
      [voltage |-> 1200, current |-> 500, temperature |-> 2550, power |-> 6000],
      [voltage |-> 1301, current |-> 75, temperature |-> 0 - 505, power |-> 976] }

ReportReadings ==
    { [timestamp |-> t, voltage |-> v.voltage, current |-> v.current,
       temperature |-> v.temperature, power |-> v.power] :
         t \in ReportTimestamps, v \in ReportValues }

(* n hourly readings of 12 V, 5 A, 25.5 C, 60 W *)
HourlyReadings(n) ==
    [i \in 1..n |-> [timestamp |-> HourAt(2024, 1, 5, 0) + i, voltage |-> 1200,
                     current |-> 500, temperature |-> 2550, power |-> 6000]]

ReportLists ==
    UNION { [1..n -> ReportReadings] : n \in 0..MaxReport }
        \cup { HourlyReadings(12), HourlyReadings(30) }

GenerateSummaryReport ==
    /\ reportPc = "ready"
    /\ report' = generateSummaryReport(reportPoints)
    /\ reportPoints' = pointsAfterEnergy(reportPoints)
    /\ reportPc' = "reported"
    /\ UNCHANGED <<alertVars, readingVars, energyVars, seriesVars, stats,
                   recommendations, trendVars, storeVars, moreVars>>

ReportInit ==
    /\ THRESHOLDS = loadThresholds(NOENV)
    /\ AlertIdle /\ ReadingIdle /\ EnergyIdle /\ MoreIdle /\ DefaultEnv
    /\ SeriesIdle /\ TrendIdle /\ StoreIdle
    /\ stats = NONE
    /\ recommendations = << >>
    /\ reportPoints \in ReportLists
    /\ report = NONE
    /\ reportPc = "ready"

ReportNext == GenerateSummaryReport

SpecReport == ReportInit /\ [][ReportNext]_vars

(* C16: for fewer than 100 readings, no readings at all included, the      *)
(* report's recommendations contain the low-priority 'data' one.          *)
C16_FewReadingsRecommendData ==
    (reportPc = "reported" /\ Len(reportPoints) < 100) =>
        \E i \in 1..Len(report.recommendations) :
            report.recommendations[i] = [type |-> "data", priority |-> "low"]

(* the calendar days of the readings and each day's readings *)
DaysOf(points) == { points[i].timestamp \div 24 : i \in 1..Len(points) }

ReadingsOfDay(points, day) == SelectSeq(points, LAMBDA d : d.timestamp \div 24 = day)

EnergyOfDay(points, day) ==
    TrapezoidSum(Ascending(ReadingsOfDay(points, day)),
                 Len(ReadingsOfDay(points, day)))

(* C17: for a non-empty reading set the peak-day record names a day of     *)
(* the set whose integrated energy is at least that of every other day,    *)
(* with that energy and that day's number of readings.                     *)
C17_PeakDayHasMostEnergy ==
    (reportPc = "reported" /\ Len(reportPoints) > 0) =>
        LET peakDay == report.peakPerformance.day
        IN /\ peakDay # NONE
           /\ \E day \in DaysOf(reportPoints) :
                 /\ peakDay.date = isoDate(newDate(day * 24))
                 /\ peakDay.energy = EnergyOfDay(reportPoints, day)
                 /\ peakDay.dataPoints = Len(ReadingsOfDay(reportPoints, day))
                 /\ \A other \in DaysOf(reportPoints) :
                       EnergyOfDay(reportPoints, other) <= peakDay.energy

----------------------------------------------------------------------------
(* AlertChecker.analyzeTrend                                               *)
(*                                                                         *)
(* The values of the sequence are whole numbers and the regression is      *)
(* computed in exact rational arithmetic, a quotient being kept as its     *)
(* numerator and denominator.  slope, intercept and r2 of the result are   *)
(* in ten-thousandths, the unit toFixed(4) rounds to.                      *)

(* faulty variant: x counts the elements from 1 *)
xAtOneBased(position) == position

(* const x = i, for the element at a position of the sequence *)
xAt(position) == position - 1

(* faulty variant: only the empty sequence is degenerate *)
tooShortOnlyEmpty(data) == Len(data) < 1

(* data.length < 2 *)
tooShort(data) == Len(data) < 2

(* the next decimal places of remainder / den, and the rounding of the     *)
(* rest: a tie goes up                                                     *)
RECURSIVE decimalPlaces(_, _, _, _)
decimalPlaces(remainder, den, places, value) ==
    IF places = 0 THEN value + (IF 2 * remainder >= den THEN 1 ELSE 0)
    ELSE decimalPlaces((remainder * 10) % den, den, places - 1,
                       value * 10 + ((remainder * 10) \div den))

(* parseFloat((num / den).toFixed(4)) in ten-thousandths, den > 0 *)
toFixed4(num, den) ==
    IF num >= 0 THEN decimalPlaces(num % den, den, 4, num \div den)
    ELSE 0 - decimalPlaces((0 - num) % den, den, 4, (0 - num) \div den)

analyzeTrend(data) ==
    IF tooShort(data) THEN [slope |-> 0, intercept |-> UNDEFINED, r2 |-> 0]
    ELSE LET n == Len(data)
             sumX == sumOf([p \in 1..n |-> xAt(p)])
             sumY == sumOf([p \in 1..n |-> data[p]])
             sumXY == sumOf([p \in 1..n |-> xAt(p) * data[p]])
             sumX2 == sumOf([p \in 1..n |-> xAt(p) * xAt(p)])
             (* slope = slopeNum / slopeDen *)
             slopeNum == n * sumXY - sumX * sumY
             slopeDen == n * sumX2 - sumX * sumX
             (* intercept = interNum / (n * slopeDen) *)
             interNum == sumY * slopeDen - slopeNum * sumX
             (* ssTot = ssTotNum / n^2 *)
             ssTotNum == sumOf([p \in 1..n |->
                                  (n * data[p] - sumY) * (n * data[p] - sumY)])
             (* y - predicted = residual(p) / (n * slopeDen) *)
             residual(p) == data[p] * n * slopeDen - slopeNum * xAt(p) * n - interNum
             ssResNum == sumOf([p \in 1..n |-> residual(p) * residual(p)])
         IN IF slopeDen = 0
            THEN (* 0 / 0 for a single element: NaN *)
                 [slope |-> NAN, intercept |-> NAN,
                  r2 |-> IF ssTotNum > 0 THEN NAN ELSE 0]
            ELSE [slope |-> toFixed4(slopeNum, slopeDen),
                  intercept |-> toFixed4(interNum, n * slopeDen),
                  r2 |-> IF ssTotNum > 0
                         THEN toFixed4(slopeDen * slopeDen * ssTotNum - ssResNum,
                                       slopeDen * slopeDen * ssTotNum)
                         ELSE 0]

----------------------------------------------------------------------------
(* AlertChecker.analyzeTrend on any numeric sequence *)

MaxTrend == 5

TrendValues == {0 - 1, 0, 1, 2, 3, 4}

TrendInputs == UNION { [1..n -> TrendValues] : n \in 0..MaxTrend }

AnalyzeTrend ==
    /\ trendPc = "ready"
    /\ trend' = analyzeTrend(trendData)
    /\ trendPc' = "done"
    /\ UNCHANGED <<alertVars, readingVars, energyVars, seriesVars, reportVars,
                   trendData, storeVars, moreVars>>

TrendInit ==
    /\ THRESHOLDS = loadThresholds(NOENV)
    /\ AlertIdle /\ ReadingIdle /\ EnergyIdle /\ MoreIdle /\ DefaultEnv
    /\ SeriesIdle /\ ReportIdle /\ StoreIdle
    /\ trendData \in TrendInputs
    /\ trend = NONE
    /\ trendPc = "ready"

TrendNext == AnalyzeTrend

SpecTrend == TrendInit /\ [][TrendNext]_vars

IsConstant(data) == \A i \in 1..Len(data) : data[i] = data[1]

(* C18: the result is exactly {slope: 0, r2: 0} for the empty and for      *)
(* every one-element sequence; for every sequence the call returns a       *)
(* result whose slope and r2 are numbers, slope 0 and r2 0 for a constant  *)
(* sequence of two or more elements.                                       *)
C18_DegenerateAndConstant ==
    trendPc = "done" =>
        /\ trend # NONE
        /\ trend.slope # NAN /\ trend.r2 # NAN
        /\ (Len(trendData) < 2 =>
              trend = [slope |-> 0, intercept |-> UNDEFINED, r2 |-> 0])
        /\ ((Len(trendData) >= 2 /\ IsConstant(trendData)) =>
              trend.slope = 0 /\ trend.r2 = 0)

C18_Witness ==
    /\ trendPc = "done"
    /\ trendData = << 3, 3, 3 >>
    /\ trend = [slope |-> 0, intercept |-> 30000, r2 |-> 0]

(* the sequence is a * i + b over the 0-based index i *)
IsLinear(data, a, b) == \A p \in 1..Len(data) : data[p] = a * (p - 1) + b

(* C19: for a sequence of two or more values a * i + b over the 0-based    *)
(* index i the result has slope a and intercept b, and r2 1 when a is not  *)
(* 0; [0,1,2,3,4] gives slope 1, intercept 0, r2 1.                        *)
C19_ExactOnLinearData ==
    (trendPc = "done" /\ Len(trendData) >= 2) =>
        LET b == trendData[1]
            a == trendData[2] - trendData[1]
        IN IsLinear(trendData, a, b) =>
              /\ trend.slope = a * 10000
              /\ trend.intercept = b * 10000
              /\ (a # 0 => trend.r2 = 10000)

C19_Witness ==
    /\ trendPc = "done"
    /\ trendData = << 0, 1, 2, 3, 4 >>
    /\ trend = [slope |-> 10000, intercept |-> 0, r2 |-> 10000]

----------------------------------------------------------------------------
(* SensorController.receiveSensorData                                      *)
(*                                                                         *)
(* Voltage, current and temperature are in hundredths of their unit and a  *)
(* power, the product of a voltage and a current, in ten-thousandths of a  *)
(* watt.  A raw field is UNDEFINED when the body does not have it and NAN  *)
(* when its text is not a number.                                          *)

(* parseFloat(rawData.voltage) *)
parseFloat(raw) == IF raw = NULL THEN NAN ELSE raw

(* a product of two numbers, NaN when either is NaN *)
times(a, b) == IF a = NAN \/ b = NAN THEN NAN ELSE a * b

(* faulty variant: a missing voltage or current counts as 0 in the power *)
processSensorDataZeroPower(raw) ==
    IF raw = NONE THEN NONE
    ELSE
    LET voltage == IF raw.voltage # UNDEFINED THEN parseFloat(raw.voltage) ELSE NULL
        current == IF raw.current # UNDEFINED THEN parseFloat(raw.current) ELSE NULL
        temperature == IF raw.temperature # UNDEFINED
                       THEN parseFloat(raw.temperature) ELSE NULL
        power == times(IF voltage = NULL THEN 0 ELSE voltage,
                       IF current = NULL THEN 0 ELSE current)
        processed == [voltage |-> voltage, current |-> current,
                      temperature |-> temperature, power |-> power]
    IN [voltage |-> voltage, current |-> current, temperature |-> temperature,
        power |-> power, status |-> determineStatus(processed)]

(* DataProcessor.processSensorData; reading a field of a null rawData      *)
(* throws inside the try block, and the catch returns null                 *)
processSensorData(raw) ==
    IF raw = NONE THEN NONE
    ELSE
    LET voltage == IF raw.voltage # UNDEFINED THEN parseFloat(raw.voltage) ELSE NULL
        current == IF raw.current # UNDEFINED THEN parseFloat(raw.current) ELSE NULL
        temperature == IF raw.temperature # UNDEFINED
                       THEN parseFloat(raw.temperature) ELSE NULL
        power == IF voltage # NULL /\ current # NULL
                 THEN times(voltage, current) ELSE NULL
        processed == [voltage |-> voltage, current |-> current,
                      temperature |-> temperature, power |-> power]
    IN [voltage |-> voltage, current |-> current, temperature |-> temperature,
        power |-> power, status |-> determineStatus(processed)]

(* new SensorData({...}): power only when processedData.power is truthy *)
newSensorData(processedData) ==
    [voltage |-> processedData.voltage,
     current |-> processedData.current,
     temperature |-> processedData.temperature,
     power |-> IF truthy(processedData.power) THEN processedData.power
               ELSE UNDEFINED,
     status |-> processedData.status,
     isAnomaly |-> processedData.status # "normal"]

(* a required Number path with a minimum and a maximum *)
validRequired(value, min, max) ==
    value \notin {NULL, NAN, UNDEFINED} /\ value >= min /\ value <= max

(* an optional Number path with a minimum and a maximum *)
validOptional(value, min, max) ==
    value \in {NULL, UNDEFINED} \/ (value # NAN /\ value >= min /\ value <= max)

(* the schema's validation, which save() runs before the pre-save hook *)
validates(doc) ==
    /\ validRequired(doc.voltage, 0, 5000)
    /\ validRequired(doc.current, 0, 3000)
    /\ validRequired(doc.temperature, 0 - 2000, 10000)
    /\ validOptional(doc.power, 0, 15000000)

(* SensorDataSchema.pre('save') *)
preSave(doc) ==
    IF ~truthy(doc.power) /\ truthy(doc.voltage) /\ truthy(doc.current)
    THEN [doc EXCEPT !.power = times(doc.voltage, doc.current)]
    ELSE doc

(* the recommendations of the response, by the stored values *)
responseRecommendations(doc) ==
    (IF doc.voltage < 1150 THEN << "low_voltage" >> ELSE << >>)
    \o (IF doc.temperature > 6000 THEN << "high_temperature" >> ELSE << >>)
    \o (IF doc.current < 10 /\ doc.voltage > 1200
        THEN << "low_current" >> ELSE << >>)

----------------------------------------------------------------------------
(* SensorController.receiveSensorData: one request, step by step *)

RawVoltages == {UNDEFINED, NAN, 0, 950, 1200, 5000, 5001}
RawCurrents == {UNDEFINED, 0, 5, 500, 3000}
RawTemperatures == {UNDEFINED, 2500, 6100}

RawInputs ==
    {NONE} \cup [voltage : RawVoltages, current : RawCurrents,
                 temperature : RawTemperatures]

(* the handler up to the end of its await of sensorData.save() *)
ReceiveSensorData ==
    /\ storePc = "ready"
    /\ IF ~apiKeyValid
       THEN /\ response' = [status |-> 401]
            /\ storePc' = "responded"
            /\ UNCHANGED stored
       ELSE IF rawData = NONE
       THEN /\ response' = [status |-> 400]
            /\ storePc' = "responded"
            /\ UNCHANGED stored
       ELSE LET sensorDoc == newSensorData(processSensorData(rawData))
            IN IF validates(sensorDoc)
               THEN /\ stored' = preSave(sensorDoc)
                    /\ storePc' = "saved"
                    /\ UNCHANGED response
               ELSE /\ response' = [status |-> 500]
                    /\ storePc' = "responded"
                    /\ UNCHANGED stored
    /\ UNCHANGED <<alertVars, readingVars, energyVars, seriesVars, reportVars,
                   trendVars, apiKeyValid, rawData, moreVars>>

(* the lookup of the device's previous reading and the call of             *)
(* AlertChecker.checkSensorData with the stored values                     *)
CheckStoredData(prev, h) ==
    /\ storePc = "saved"
    /\ CheckSensorData([voltage |-> stored.voltage, current |-> stored.current,
                        temperature |-> stored.temperature], prev, h)

(* the response, once checkSensorData has returned *)
RespondToSensor ==
    /\ storePc = "saved"
    /\ pc = "returned"
    /\ response' = [status |-> 200, alerts |-> Len(returned),
                    recommendations |-> responseRecommendations(stored)]
    /\ storePc' = "responded"
    /\ UNCHANGED <<alertVars, readingVars, energyVars, seriesVars, reportVars,
                   trendVars, apiKeyValid, rawData, stored, moreVars>>

StoreInit ==
    /\ THRESHOLDS = loadThresholds(NOENV)
    /\ AlertIdle /\ ReadingIdle /\ EnergyIdle /\ MoreIdle /\ DefaultEnv
    /\ SeriesIdle /\ ReportIdle /\ TrendIdle
    /\ apiKeyValid \in BOOLEAN
    /\ rawData \in RawInputs
    /\ stored = NONE
    /\ storePc = "ready"
    /\ response = NONE

StoreNext ==
    \/ ReceiveSensorData
    \/ /\ storePc = "saved" /\ pc = "idle"
       /\ \E prev \in PreviousInputs, h \in Hours : CheckStoredData(prev, h)
    \/ SendAlertEmailOk
    \/ SendAlertEmailFails
    \/ ReturnAlerts
    \/ RespondToSensor

SpecStore == StoreInit /\ [][StoreNext]_vars

(* C20: every stored reading, its voltage and current present and in       *)
(* range, 0 included, has a stored power equal to voltage times current.   *)
C20_StoredPowerIsProduct ==
    ( /\ stored # NONE
      /\ validRequired(stored.voltage, 0, 5000)
      /\ validRequired(stored.current, 0, 3000) )
    => stored.power = stored.voltage * stored.current

----------------------------------------------------------------------------
(* DataProcessor.processSensorData on any raw input *)

(* a raw field: missing, null, text that is no number, or a number *)
ProcessVoltages == {UNDEFINED, NULL, NAN, 0, 950, 1200}
ProcessCurrents == {UNDEFINED, NULL, NAN, 0, 5, 500}
ProcessTemperatures == {UNDEFINED, NAN, 2500, 6100}

ProcessInputs ==
    {NONE} \cup [voltage : ProcessVoltages, current : ProcessCurrents,
                 temperature : ProcessTemperatures]

ProcessSensorData ==
    /\ procPc = "ready"
    /\ procResult' = processSensorData(procRaw)
    /\ procPc' = "done"
    /\ UNCHANGED <<alertVars, readingVars, energyVars, seriesVars, reportVars,
                   trendVars, storeVars, processEnv, procRaw, loginVars,
                   ingestVars, deleteVars, ackVars>>

ProcessInit ==
    /\ THRESHOLDS = loadThresholds(NOENV)
    /\ AlertIdle /\ ReadingIdle /\ EnergyIdle
    /\ SeriesIdle /\ ReportIdle /\ TrendIdle /\ StoreIdle /\ DefaultEnv
    /\ LoginIdle /\ IngestIdle /\ DeleteIdle /\ AckIdle
    /\ procRaw \in ProcessInputs
    /\ procResult = NONE
    /\ procPc = "ready"

ProcessNext == ProcessSensorData

SpecProcess == ProcessInit /\ [][ProcessNext]_vars

----------------------------------------------------------------------------
(* THRESHOLDS against the environment it was loaded from *)

Supplied(raw) == raw # NULL /\ raw # NAN

ThresholdFollowsEnv(used, raw, dflt) ==
    IF Supplied(raw) THEN used = raw ELSE used = dflt

(* C22: each threshold the evaluator uses is the supplied number when one  *)
(* is supplied, a supplied 0 included, and the default 20, 10, 15, 60 when *)
(* the value is missing or not numeric.                                    *)
C22_ThresholdsFollowEnv ==
    /\ ThresholdFollowsEnv(THRESHOLDS.VOLTAGE_LOW,
                           processEnv.VOLTAGE_THRESHOLD_LOW, 20)
    /\ ThresholdFollowsEnv(THRESHOLDS.VOLTAGE_CRITICAL,
                           processEnv.VOLTAGE_THRESHOLD_CRITICAL, 10)
    /\ ThresholdFollowsEnv(THRESHOLDS.CURRENT_LOW,
                           processEnv.CURRENT_THRESHOLD_LOW, 15)
    /\ ThresholdFollowsEnv(THRESHOLDS.TEMPERATURE_HIGH,
                           processEnv.TEMPERATURE_THRESHOLD_HIGH, 60)

----------------------------------------------------------------------------
(* The caller's array after an aggregation *)

(* C23: after calculateEnergyConsumption returns, the caller's reading     *)
(* collection holds the same readings in the same order as before the call *)
C23_InputNotMutated ==
    energyPc = "done" => dataPoints = givenPoints

----------------------------------------------------------------------------
(* Rejected deliveries inside AlertChecker.processAlerts *)

(* what checkSensorData returns for its arguments when no delivery rejects *)
ReturnIfAllDelivered ==
    IF sensorData = NONE THEN << >>
    ELSE candidateList(
           IF sensorData.voltage # NULL
           THEN checkVoltage(sensorData.voltage, THRESHOLDS) ELSE << >>,
           IF sensorData.current # NULL
           THEN checkCurrent(sensorData.current, hour, THRESHOLDS) ELSE << >>,
           IF sensorData.temperature # NULL
           THEN checkTemperature(sensorData.temperature, THRESHOLDS) ELSE << >>,
           IF previousData # NONE
           THEN checkAnomalies(sensorData, previousData) ELSE << >>)

(* C24: a rejected delivery does not stop the evaluator: every qualifying  *)
(* alert is still handed to EmailService.sendAlertEmail, in order, and     *)
(* checkSensorData returns the list it returns when every delivery         *)
(* succeeds.                                                               *)
C24_DeliveryFailureContained ==
    /\ pc = "sending" =>
          /\ emailIdx = Len(sent) + 1
          /\ Len(sent) <= Len(emailAlerts)
          /\ sent = SubSeq(emailAlerts, 1, Len(sent))
    /\ pc = "returned" =>
          /\ sent = emailAlerts
          /\ emailErrors <= Len(emailAlerts)
          /\ returned = ReturnIfAllDelivered

C24_Witness ==
    /\ pc = "returned"
    /\ Len(emailAlerts) = 2
    /\ emailErrors = 1
    /\ sent = emailAlerts
    /\ Len(returned) >= 2

----------------------------------------------------------------------------
(* User model: lockout methods.  Time is in whole minutes. *)

MAX_LOGIN_ATTEMPTS == 5
lockAfterAttempts == 5
lockMinutes == 15

(* faulty variant: the lock is never honoured *)
isLockedNever(doc, t) == FALSE

(* UserSchema.methods.isLocked *)
isLocked(doc, t) == doc.lockUntil # NULL /\ doc.lockUntil > t

(* faulty variant: the attempt is counted but the lock is never set *)
incLoginAttemptsNoLock(doc, account, t) ==
    [account EXCEPT !.loginAttempts = @ + 1]

(* UserSchema.methods.incLoginAttempts: the update is chosen from the      *)
(* document instance `doc` the request holds, and updateOne applies it to  *)
(* the account document                                                     *)
incLoginAttempts(doc, account, t) ==
    IF doc.lockUntil # NULL /\ doc.lockUntil < t
    THEN [account EXCEPT !.loginAttempts = 1, !.lockUntil = NULL]
    ELSE IF doc.loginAttempts + 1 >= lockAfterAttempts
         THEN [account EXCEPT !.loginAttempts = @ + 1,
                             !.lockUntil = t + lockMinutes]
         ELSE [account EXCEPT !.loginAttempts = @ + 1]

(* UserSchema.methods.resetLoginAttempts *)
resetLoginAttempts(account) ==
    [account EXCEPT !.loginAttempts = 0, !.lockUntil = NULL]

(* AuthController.login: attemptsLeft, from the instance read by findOne *)
attemptsLeft(doc) == MAX_LOGIN_ATTEMPTS - doc.loginAttempts - 1

(* AuthController.login: the answer to a wrong password *)
failedLoginAnswer(doc) ==
    IF attemptsLeft(doc) <= 0 THEN "locked_too_many_attempts"
    ELSE "invalid_attempts_left"

----------------------------------------------------------------------------
(* AuthController.login requests for one account *)

MaxLogins == 6
MaxClock == 20
MaxConcurrent == 2

Passwords == {"wrong", "right"}

NoRequest == [pc |-> "idle", password |-> "none", doc |-> NONE,
              answer |-> "none", left |-> 0]

InFlight == {i \in 1..Len(loginReqs) : loginReqs[i].pc = "found"}

(* login up to `await user.comparePassword`, for a request that names the  *)
(* account's email and gives a password: findOne, then the active and the  *)
(* lock check on the instance read                                         *)
LoginFind(i, password) ==
    /\ i \in 1..Len(loginReqs)
    /\ loginReqs[i].pc \in {"idle", "done"}
    /\ Len(loginLog) + Cardinality(InFlight) < MaxLogins
    /\ IF ~user.isActive
       THEN /\ loginReqs' = [loginReqs EXCEPT ![i] =
                   [pc |-> "done", password |-> password, doc |-> user,
                    answer |-> "deactivated", left |-> 0]]
            /\ loginLog' = Append(loginLog, password)
       ELSE IF isLocked(user, now)
       THEN /\ loginReqs' = [loginReqs EXCEPT ![i] =
                   [pc |-> "done", password |-> password, doc |-> user,
                    answer |-> "locked_try_again", left |-> 0]]
            /\ loginLog' = Append(loginLog, password)
       ELSE /\ loginReqs' = [loginReqs EXCEPT ![i] =
                   [pc |-> "found", password |-> password, doc |-> user,
                    answer |-> "none", left |-> 0]]
            /\ loginLog' = loginLog
    /\ UNCHANGED <<alertVars, readingVars, energyVars, seriesVars, reportVars,
                   trendVars, storeVars, processEnv, processVars, user, now,
                   sessions, ingestVars, deleteVars, ackVars>>

(* login after comparePassword resolved: incLoginAttempts and the answer,  *)
(* or resetLoginAttempts, save of lastLogin and the session                *)
LoginUpdate(i) ==
    /\ i \in 1..Len(loginReqs)
    /\ loginReqs[i].pc = "found"
    /\ IF loginReqs[i].password = "wrong"
       THEN /\ user' = incLoginAttempts(loginReqs[i].doc, user, now)
            /\ sessions' = sessions
            /\ loginReqs' = [loginReqs EXCEPT ![i] =
                   [@ EXCEPT !.pc = "done",
                             !.answer = failedLoginAnswer(loginReqs[i].doc),
                             !.left = attemptsLeft(loginReqs[i].doc)]]
       ELSE /\ user' = resetLoginAttempts(user)
            /\ sessions' = sessions + 1
            /\ loginReqs' = [loginReqs EXCEPT ![i] =
                   [@ EXCEPT !.pc = "done", !.answer = "session"]]
    /\ loginLog' = Append(loginLog, loginReqs[i].password)
    /\ UNCHANGED <<alertVars, readingVars, energyVars, seriesVars, reportVars,
                   trendVars, storeVars, processEnv, processVars, now,
                   ingestVars, deleteVars, ackVars>>

(* Date.now() advances *)
Tick ==
    /\ now < MaxClock
    /\ now' = now + 1
    /\ UNCHANGED <<alertVars, readingVars, energyVars, seriesVars, reportVars,
                   trendVars, storeVars, processEnv, processVars, user,
                   loginReqs, sessions, loginLog, ingestVars, deleteVars,
                   ackVars>>

LoginInit ==
    /\ THRESHOLDS = loadThresholds(NOENV)
    /\ AlertIdle /\ ReadingIdle /\ EnergyIdle
    /\ SeriesIdle /\ ReportIdle /\ TrendIdle /\ StoreIdle /\ DefaultEnv
    /\ ProcessIdle /\ IngestIdle /\ DeleteIdle /\ AckIdle
    /\ user \in [loginAttempts : {0}, lockUntil : {NULL}, isActive : BOOLEAN]
    /\ now = 0
    /\ loginReqs = [i \in 1..MaxConcurrent |-> NoRequest]
    /\ sessions = 0
    /\ loginLog = << >>

(* one request at a time *)
LoginNext ==
    \/ \E password \in Passwords : LoginFind(1, password)
    \/ LoginUpdate(1)
    \/ Tick

SpecLogin == LoginInit /\ [][LoginNext]_vars

(* requests interleave between findOne and the update *)
ConcurrentLoginNext ==
    \/ \E i \in 1..MaxConcurrent, password \in Passwords : LoginFind(i, password)
    \/ \E i \in 1..MaxConcurrent : LoginUpdate(i)
    \/ Tick

SpecConcurrentLogin == LoginInit /\ [][ConcurrentLoginNext]_vars

----------------------------------------------------------------------------
(* Lockout, one request at a time *)

FiveWrong == <<"wrong", "wrong", "wrong", "wrong", "wrong">>

LoginStep == Len(loginLog') > Len(loginLog) \/ loginReqs' # loginReqs

(* the fifth consecutive wrong password on the fresh account is answered *)
FifthWrongAnswered ==
    /\ user.isActive
    /\ loginLog = SubSeq(FiveWrong, 1, 4)
    /\ loginLog' = FiveWrong

LockedNow == user.isActive /\ user.lockUntil # NULL /\ user.lockUntil > now

(* C25: from an active account with loginAttempts = 0 and no lock, the     *)
(* fifth consecutive login with a wrong password locks the account until   *)
(* 15 minutes later; and while the lock has not expired every login        *)
(* request, one with the right password included, is rejected, creates no  *)
(* session and leaves loginAttempts and lockUntil as they are.             *)
C25_LockoutAfterFiveWrong ==
    [][ /\ FifthWrongAnswered =>
              /\ user'.loginAttempts = 5
              /\ user'.lockUntil = now + 15
        /\ (LockedNow /\ LoginStep) =>
              /\ loginReqs'[1].pc = "done"
              /\ loginReqs'[1].answer = "locked_try_again"
              /\ Len(loginLog') = Len(loginLog) + 1
              /\ sessions' = sessions
              /\ user' = user ]_vars

C25_Witness ==
    /\ loginLog = FiveWrong \o <<"right">>
    /\ user.loginAttempts = 5
    /\ user.lockUntil # NULL /\ user.lockUntil > now
    /\ now > 0
    /\ sessions = 0
    /\ loginReqs[1].password = "right"
    /\ loginReqs[1].answer = "locked_try_again"

----------------------------------------------------------------------------
(* Lockout, interleaved requests and the answers *)

(* C26: the stored account never has loginAttempts >= 5 without lockUntil  *)
(* being set, in any interleaving of login requests for the account.       *)
C26_FiveAttemptsImplyLock ==
    user # NONE => (user.loginAttempts >= 5 => user.lockUntil # NULL)

(* request i is answered by this step, after a wrong password *)
FailedLoginAnswered(i) ==
    /\ loginReqs[i].pc = "found"
    /\ loginReqs'[i].pc = "done"
    /\ loginReqs[i].password = "wrong"

(* C27: when a failed login is answered, 'Account locked due to too many   *)
(* failed attempts.' is given only if the stored account is then locked    *)
(* (lockUntil set and in the future), and otherwise the number of attempts *)
(* reported as left is 5 minus the stored loginAttempts.                   *)
C27_AnswerAgreesWithAccount ==
    [][ FailedLoginAnswered(1) =>
          IF loginReqs'[1].answer = "locked_too_many_attempts"
          THEN user'.lockUntil # NULL /\ user'.lockUntil > now'
          ELSE loginReqs'[1].left = 5 - user'.loginAttempts ]_vars

----------------------------------------------------------------------------
(* SensorController.receiveSensorData: interleaved requests *)

MaxIngest == 3
MaxIngestClock == 3

DeviceIds == {"ESP32_SOLAR_01", "ESP32_SOLAR_02"}

NoIngest == [pc |-> "idle", deviceId |-> "none", timestamp |-> 0,
             valid |-> TRUE, previous |-> NONE]

(* the documents SensorData.findOne matches: same device, another _id *)
previousCandidates(db, deviceId, id) ==
    {k \in 1..Len(db) : db[k].deviceId = deviceId /\ db[k].id # id}

(* .sort({ timestamp: -1 }): the matches with the greatest timestamp; the  *)
(* order among equal timestamps is the database's choice                   *)
latestCandidates(db, deviceId, id) ==
    LET matches == previousCandidates(db, deviceId, id)
    IN {k \in matches : \A j \in matches : db[j].timestamp <= db[k].timestamp}

(* receiveSensorData up to `await sensorData.save()`: processSensorData    *)
(* stamps the reading with new Date() and the document is built            *)
IngestProcess(i, deviceId, valid) ==
    /\ i \in 1..Len(ingestReqs)
    /\ ingestReqs[i].pc = "idle"
    /\ ingestReqs' = [ingestReqs EXCEPT ![i] =
          [pc |-> "saving", deviceId |-> deviceId, timestamp |-> ingestClock,
           valid |-> valid, previous |-> NONE]]
    /\ UNCHANGED <<alertVars, readingVars, energyVars, seriesVars, reportVars,
                   trendVars, storeVars, processEnv, processVars, loginVars,
                   readingsDb, ingestClock, deleteVars, ackVars>>

(* sensorData.save() settles: the document is inserted, or validation      *)
(* rejects it and the catch answers 500                                    *)
IngestSave(i) ==
    /\ i \in 1..Len(ingestReqs)
    /\ ingestReqs[i].pc = "saving"
    /\ IF ingestReqs[i].valid
       THEN /\ readingsDb' = Append(readingsDb,
                   [id |-> i, deviceId |-> ingestReqs[i].deviceId,
                    timestamp |-> ingestReqs[i].timestamp])
            /\ ingestReqs' = [ingestReqs EXCEPT ![i].pc = "saved"]
       ELSE /\ readingsDb' = readingsDb
            /\ ingestReqs' = [ingestReqs EXCEPT ![i].pc = "failed"]
    /\ UNCHANGED <<alertVars, readingVars, energyVars, seriesVars, reportVars,
                   trendVars, storeVars, processEnv, processVars, loginVars,
                   ingestClock, deleteVars, ackVars>>

(* SensorData.findOne(...).sort(...) settles and its result is passed to   *)
(* AlertChecker.checkSensorData as previousData                            *)
IngestFindPrevious(i) ==
    /\ i \in 1..Len(ingestReqs)
    /\ ingestReqs[i].pc = "saved"
    /\ LET latest == latestCandidates(readingsDb, ingestReqs[i].deviceId, i)
       IN IF latest = {}
          THEN ingestReqs' = [ingestReqs EXCEPT ![i].pc = "checked"]
          ELSE \E k \in latest :
                  ingestReqs' = [ingestReqs EXCEPT ![i].pc = "checked",
                                                   ![i].previous = readingsDb[k]]
    /\ UNCHANGED <<alertVars, readingVars, energyVars, seriesVars, reportVars,
                   trendVars, storeVars, processEnv, processVars, loginVars,
                   readingsDb, ingestClock, deleteVars, ackVars>>

(* the clock behind new Date() advances *)
IngestTick ==
    /\ ingestClock < MaxIngestClock
    /\ ingestClock' = ingestClock + 1
    /\ UNCHANGED <<alertVars, readingVars, energyVars, seriesVars, reportVars,
                   trendVars, storeVars, processEnv, processVars, loginVars,
                   readingsDb, ingestReqs, deleteVars, ackVars>>

IngestInit ==
    /\ THRESHOLDS = loadThresholds(NOENV)
    /\ AlertIdle /\ ReadingIdle /\ EnergyIdle
    /\ SeriesIdle /\ ReportIdle /\ TrendIdle /\ StoreIdle /\ DefaultEnv
    /\ ProcessIdle /\ LoginIdle /\ DeleteIdle /\ AckIdle
    /\ readingsDb = << >>
    /\ ingestClock = 0
    /\ ingestReqs = [i \in 1..MaxIngest |-> NoIngest]

IngestNext ==
    \/ \E i \in 1..MaxIngest, deviceId \in DeviceIds, valid \in BOOLEAN :
          IngestProcess(i, deviceId, valid)
    \/ \E i \in 1..MaxIngest : IngestSave(i)
    \/ \E i \in 1..MaxIngest : IngestFindPrevious(i)
    \/ IngestTick

SpecIngest == IngestInit /\ [][IngestNext]_vars

(* C28: the previous reading a request passes to checkSensorData is a      *)
(* reading of the same device whose timestamp is not later than that of    *)
(* the reading the request ingests, in every interleaving.                 *)
C28_PreviousIsEarlierSameDevice ==
    \A i \in 1..Len(ingestReqs) :
        (ingestReqs[i].pc = "checked" /\ ingestReqs[i].previous # NONE) =>
            /\ ingestReqs[i].previous.deviceId = ingestReqs[i].deviceId
            /\ ingestReqs[i].previous.timestamp <= ingestReqs[i].timestamp

----------------------------------------------------------------------------
(* SensorController.bulkDeleteSensorData *)

(* req.body.ids: missing, null, an array, or a non-empty string *)
IdsInputs ==
    { [kind |-> "undefined", items |-> << >>],
      [kind |-> "null", items |-> << >>],
      [kind |-> "array", items |-> << >>],
      [kind |-> "array", items |-> <<1>>],
      [kind |-> "array", items |-> <<1, 3>>],
      [kind |-> "string", items |-> << >>] }

(* req.body.olderThan: missing, or a time *)
OlderThanInputs == {UNDEFINED, 1, 2, 3}

(* req.body.deviceId: missing (""), or a device *)
DeleteDeviceInputs == {""} \cup DeviceIds

DeleteBodies ==
    [ids : IdsInputs, olderThan : OlderThanInputs, deviceId : DeleteDeviceInputs]

(* the SensorData collection before the request *)
StoredReadings ==
    << [id |-> 1, deviceId |-> "ESP32_SOLAR_01", timestamp |-> 0],
       [id |-> 2, deviceId |-> "ESP32_SOLAR_02", timestamp |-> 1],
       [id |-> 3, deviceId |-> "ESP32_SOLAR_01", timestamp |-> 2] >>

idsTruthy(ids) == ids.kind \in {"array", "string"}

(* ids && Array.isArray(ids) && ids.length > 0 *)
idsUsable(ids) == idsTruthy(ids) /\ ids.kind = "array" /\ Len(ids.items) > 0

(* if (!ids && !olderThan) return 400 *)
rejected(body) == ~idsTruthy(body.ids) /\ body.olderThan = UNDEFINED

(* the query object built from the body *)
buildQuery(body) ==
    [hasId |-> idsUsable(body.ids),
     ids |-> IF idsUsable(body.ids) THEN body.ids.items ELSE << >>,
     hasTimestamp |-> ~idsUsable(body.ids) /\ body.olderThan # UNDEFINED,
     before |-> IF ~idsUsable(body.ids) /\ body.olderThan # UNDEFINED
                THEN body.olderThan ELSE 0,
     hasDeviceId |-> body.deviceId # "",
     deviceId |-> body.deviceId]

matchesQuery(query, doc) ==
    /\ query.hasId => \E k \in 1..Len(query.ids) : query.ids[k] = doc.id
    /\ query.hasTimestamp => doc.timestamp < query.before
    /\ query.hasDeviceId => doc.deviceId = query.deviceId

(* SensorData.deleteMany(query) *)
deleteMany(db, query) ==
    LET kept(doc) == ~matchesQuery(query, doc)
    IN SelectSeq(db, kept)

BulkDeleteSensorData ==
    /\ deletePc = "ready"
    /\ deleteQuery' = buildQuery(deleteBody)
    /\ IF rejected(deleteBody)
       THEN /\ deleteResponse' = 400
            /\ readingsDb' = readingsDb
       ELSE /\ deleteResponse' = 200
            /\ readingsDb' = deleteMany(readingsDb, buildQuery(deleteBody))
    /\ deletePc' = "done"
    /\ UNCHANGED <<alertVars, readingVars, energyVars, seriesVars, reportVars,
                   trendVars, storeVars, processEnv, processVars, loginVars,
                   ingestClock, ingestReqs, deleteBody, ackVars>>

DeleteInit ==
    /\ THRESHOLDS = loadThresholds(NOENV)
    /\ AlertIdle /\ ReadingIdle /\ EnergyIdle
    /\ SeriesIdle /\ ReportIdle /\ TrendIdle /\ StoreIdle /\ DefaultEnv
    /\ ProcessIdle /\ LoginIdle /\ AckIdle
    /\ readingsDb = StoredReadings
    /\ ingestClock = 0
    /\ ingestReqs = << >>
    /\ deleteBody \in DeleteBodies
    /\ deleteQuery = NONE
    /\ deleteResponse = 0
    /\ deletePc = "ready"

DeleteNext == BulkDeleteSensorData

SpecDelete == DeleteInit /\ [][DeleteNext]_vars

(* C29: for every request body, either the request is rejected with       *)
(* status 400 and nothing is deleted, or the delete query restricts _id or *)
(* timestamp.                                                              *)
C29_DeleteIsConstrained ==
    deletePc = "done" =>
        \/ deleteResponse = 400 /\ readingsDb = StoredReadings
        \/ deleteQuery.hasId \/ deleteQuery.hasTimestamp

----------------------------------------------------------------------------
(* AlertController.acknowledgeAlert and resolveAlert on one alert *)

MaxAckClock == 1

(* the requests that may be in flight together *)
AlertRequests == {1, 2}

UserIds == {1, 2}

(* req.body.notes: missing, or a text *)
NotesInputs == {UNDEFINED, 1}

AlertFields == {"acknowledged", "acknowledgedBy", "acknowledgedAt", "resolved",
                "resolvedBy", "resolvedAt", "resolutionNotes"}

(* an alert created unacknowledged and unresolved *)
NewAlert ==
    [acknowledged |-> FALSE, acknowledgedBy |-> UNDEFINED,
     acknowledgedAt |-> UNDEFINED, resolved |-> FALSE, resolvedBy |-> UNDEFINED,
     resolvedAt |-> UNDEFINED, resolutionNotes |-> UNDEFINED]

NoAlertRequest == [pc |-> "idle", kind |-> "none", status |-> 0,
                   found |-> NONE, edited |-> NONE]

(* acknowledgeAlert: if (alert.resolved) return 400 *)
acknowledgeRejected(alert) == alert.resolved

(* acknowledgeAlert: the assignments to the document found *)
acknowledgeEdits(alert, userId, notes, t) ==
    [alert EXCEPT !.acknowledged = TRUE,
                  !.acknowledgedBy = userId,
                  !.acknowledgedAt = t,
                  !.resolutionNotes = IF notes # UNDEFINED THEN notes ELSE @]

(* faulty variant: resolving does not acknowledge *)
resolveEditsOnly(alert, userId, notes, t) ==
    [alert EXCEPT !.resolved = TRUE,
                  !.resolvedBy = userId,
                  !.resolvedAt = t,
                  !.resolutionNotes = IF notes # UNDEFINED THEN notes ELSE @]

(* resolveAlert: the assignments to the document found *)
resolveEdits(alert, userId, notes, t) ==
    [alert EXCEPT !.resolved = TRUE,
                  !.resolvedBy = userId,
                  !.resolvedAt = t,
                  !.resolutionNotes = IF notes # UNDEFINED THEN notes ELSE @,
                  !.acknowledged = TRUE,
                  !.acknowledgedBy = IF alert.acknowledged THEN @ ELSE userId,
                  !.acknowledgedAt = IF alert.acknowledged THEN @ ELSE t]

(* alert.save(): the paths whose value was changed on the instance are     *)
(* written to the stored document                                          *)
saveEdits(document, found, edited) ==
    [f \in AlertFields |-> IF edited[f] # found[f] THEN edited[f] ELSE document[f]]

(* a handler up to `await alert.save()`: findById, the resolved check of   *)
(* acknowledgeAlert, and the assignments                                   *)
AlertFind(i, kind, userId, notes) ==
    /\ i \in DOMAIN ackReqs
    /\ ackReqs[i].pc \in {"idle", "done"}
    /\ ackReqs' = [ackReqs EXCEPT ![i] =
          IF kind = "acknowledge" /\ acknowledgeRejected(alertDoc)
          THEN [pc |-> "done", kind |-> kind, status |-> 400,
                found |-> NONE, edited |-> NONE]
          ELSE [pc |-> "saving", kind |-> kind, status |-> 0,
                found |-> alertDoc,
                edited |-> IF kind = "acknowledge"
                           THEN acknowledgeEdits(alertDoc, userId, notes, ackClock)
                           ELSE resolveEdits(alertDoc, userId, notes, ackClock)]]
    /\ UNCHANGED <<alertVars, readingVars, energyVars, seriesVars, reportVars,
                   trendVars, storeVars, processEnv, processVars, loginVars,
                   ingestVars, deleteVars, alertDoc, ackClock>>

(* alert.save() settles and the handler answers 200 *)
AlertSave(i) ==
    /\ i \in DOMAIN ackReqs
    /\ ackReqs[i].pc = "saving"
    /\ alertDoc' = saveEdits(alertDoc, ackReqs[i].found, ackReqs[i].edited)
    /\ ackReqs' = [ackReqs EXCEPT ![i] =
          [pc |-> "done", kind |-> ackReqs[i].kind, status |-> 200,
           found |-> NONE, edited |-> NONE]]
    /\ UNCHANGED <<alertVars, readingVars, energyVars, seriesVars, reportVars,
                   trendVars, storeVars, processEnv, processVars, loginVars,
                   ingestVars, deleteVars, ackClock>>

AlertTick ==
    /\ ackClock < MaxAckClock
    /\ ackClock' = ackClock + 1
    /\ UNCHANGED <<alertVars, readingVars, energyVars, seriesVars, reportVars,
                   trendVars, storeVars, processEnv, processVars, loginVars,
                   ingestVars, deleteVars, alertDoc, ackReqs>>

AckInit ==
    /\ THRESHOLDS = loadThresholds(NOENV)
    /\ AlertIdle /\ ReadingIdle /\ EnergyIdle
    /\ SeriesIdle /\ ReportIdle /\ TrendIdle /\ StoreIdle /\ DefaultEnv
    /\ ProcessIdle /\ LoginIdle /\ IngestIdle /\ DeleteIdle
    /\ alertDoc = NewAlert
    /\ ackReqs = [i \in AlertRequests |-> NoAlertRequest]
    /\ ackClock = 0

AckNext ==
    \/ \E i \in AlertRequests, kind \in {"acknowledge", "resolve"},
          userId \in UserIds, notes \in NotesInputs :
          AlertFind(i, kind, userId, notes)
    \/ \E i \in AlertRequests : AlertSave(i)
    \/ AlertTick

SpecAck == AckInit /\ [][AckNext]_vars

(* this step is acknowledgeAlert request i finding the alert resolved *)
AcknowledgeOnResolved(i) ==
    /\ alertDoc.resolved
    /\ ackReqs[i].pc # "saving"
    /\ ackReqs'[i] # ackReqs[i]
    /\ ackReqs'[i].kind = "acknowledge"

(* C30: for an alert created unacknowledged and unresolved, resolved       *)
(* implies acknowledged, neither flag returns to false, and an             *)
(* acknowledgeAlert request on a resolved alert is answered 400 and leaves *)
(* every field of the alert unchanged.                                     *)
C30_AlertFlagsMonotone ==
    [][ /\ alertDoc'.resolved => alertDoc'.acknowledged
        /\ alertDoc.acknowledged => alertDoc'.acknowledged
        /\ alertDoc.resolved => alertDoc'.resolved
        /\ \A i \in AlertRequests :
              AcknowledgeOnResolved(i) =>
                  /\ ackReqs'[i].pc = "done"
                  /\ ackReqs'[i].status = 400
                  /\ alertDoc' = alertDoc ]_vars

C30_Witness ==
    /\ alertDoc # NONE
    /\ alertDoc.resolved /\ alertDoc.acknowledged
    /\ alertDoc.acknowledgedBy = 1 /\ alertDoc.resolvedBy = 2
    /\ alertDoc.acknowledgedAt < alertDoc.resolvedAt
    /\ \E i \in DOMAIN ackReqs :
          /\ ackReqs[i].kind = "acknowledge"
          /\ ackReqs[i].status = 400

============================================================================
